---- MODULE Spec2Model ----
(***************************************************************************)
(* The squad router of PolymarketSocial (backend/src/routes/squads.ts,     *)
(* kept as src/unnamed/part_000): the leaderboard handler                   *)
(* GET /:id/leaderboard, the winner handler POST /:id/calculate-winner,     *)
(* the 30 second pnlCache and the squad_winners table.                      *)
(*                                                                          *)
(* Node runs the handlers on one thread: the code between two awaits is one *)
(* atomic step, and steps of different requests interleave at the awaits.   *)
(* Each action below is one such step: the awaited store call or fetch      *)
(* together with the continuation that runs when it resolves.               *)
(*                                                                          *)
(* Money is kept in thousandths of a dollar (mills), so that rounding to    *)
(* two decimals is a real operation.  Time is epoch seconds.                *)
(***************************************************************************)
EXTENDS Integers, Sequences, FiniteSets, Bags, TLC

\* ---------------------------------------------------------------- bounds
\* Request slots that can be in flight at once.
NumProcs == 2
\* Rows of the users table.
NumUsers == 3
\* Closed positions in one market-data response of the aggregation suite.
MaxPositions == 2
\* Clock steps a behaviour may take.
MaxTicks == 2
\* calculate-winner requests a behaviour may start.
MaxCalls == 2
\* squads that may exist
MaxSquads == 2

\* ------------------------------------------------------- program constants
\* new NodeCache({ stdTTL: 30 })
stdTTL == 30
\* setDate(getDate() - 7), in seconds
WeekSeconds == 604800
\* setDate(getDate() - 1), in seconds
DaySeconds == 86400

\* The instant the model starts at: 1 January 2026, 00:00:00 UTC.
Epoch0 == 20454 * DaySeconds

Procs == 1..NumProcs
Users == 1..NumUsers
\* Squad ids of the requests.
SquadIds == {1, 2}
\* Trading identities known to the market-data service; "" is "no identity".
Addrs == {"pA", "pB"}
NoAddr == ""

\* An optional value is <<>> (undefined, null) or <<v>>.
\* x || 0 of a numeric field that may be missing.
OrZero(x) == IF x = <<>> THEN 0 ELSE x[1]
\* JavaScript truthiness of an optional number.
Truthy(x) == x # <<>> /\ x[1] # 0

Abs(x) == IF x < 0 THEN 0 - x ELSE x

\* parseFloat(x.toFixed(2)) on mills: the nearest cent, halves away from zero.
Round2Up(x) == ((x + 9) \div 10) * 10
Round2(x) == IF x < 0 THEN 0 - (((Abs(x) + 5) \div 10) * 10)
             ELSE ((x + 5) \div 10) * 10

\* req.query.timeframe as string || 'all'
TimeframeOf(q) == IF q = "" THEN "all" ELSE q

\* startTimestamp of the leaderboard handler at time t.
StartAlwaysWeek(tf, t) == <<t - WeekSeconds>>
StartTimestamp(tf, t) ==
  IF tf = "weekly" THEN <<t - WeekSeconds>>
  ELSE IF tf = "daily" THEN <<t - DaySeconds>>
  ELSE <<>>

\* closedPositions.filter(pos => pos.timestamp && pos.timestamp >= startTimestamp)
KeepStrict(pos, start) ==
  Truthy(pos.timestamp) /\ pos.timestamp[1] > start[1]
Keep(pos, start) ==
  Truthy(pos.timestamp) /\ pos.timestamp[1] >= start[1]

RECURSIVE SumPnl(_)
SumPnl(ps) ==
  IF ps = <<>> THEN 0
  ELSE OrZero(Head(ps).realizedPnl) + SumPnl(Tail(ps))

RECURSIVE FilterClosed(_, _)
FilterClosed(ps, start) ==
  IF ps = <<>> THEN <<>>
  ELSE IF Keep(Head(ps), start)
       THEN <<Head(ps)>> \o FilterClosed(Tail(ps), start)
       ELSE FilterClosed(Tail(ps), start)

\* The realized sum of the leaderboard handler: the filter applies only when
\* startTimestamp is truthy and the body is an array; a non-array sums to 0.
RealizedPnl(r, start) ==
  IF ~r.isArray THEN 0
  ELSE IF Truthy(start) THEN SumPnl(FilterClosed(r.closed, start))
  ELSE SumPnl(r.closed)

\* A market-data exchange failed: a fetch threw or a response was not ok.
Failed(r) == r.throws \/ ~r.closedOk \/ ~r.valueOk

\* totalLivePnl of one member in the leaderboard handler.
TotalIgnoringStatus(r, tf, start) ==
  IF r.throws THEN 0
  ELSE Round2(RealizedPnl(r, start)
              + (IF tf = "all" THEN OrZero(r.value) ELSE 0))
TotalAlwaysOpen(r, tf, start) ==
  IF Failed(r) THEN 0
  ELSE Round2(RealizedPnl(r, start) + OrZero(r.value))
LeaderboardTotal(r, tf, start) ==
  IF Failed(r) THEN 0
  ELSE Round2(RealizedPnl(r, start)
              + (IF tf = "all" THEN OrZero(r.value) ELSE 0))

\* totalLivePnl of one member in the winner handler: no cutoff, open value in.
WinnerTotalRealizedOnly(r) ==
  IF Failed(r) THEN 0
  ELSE Round2(IF r.isArray THEN SumPnl(r.closed) ELSE 0)
WinnerTotal(r) ==
  IF Failed(r) THEN 0
  ELSE Round2((IF r.isArray THEN SumPnl(r.closed) ELSE 0) + OrZero(r.value))

\* username || 'Anonymous'
DisplayName(u) == IF u.username = "" THEN "Anonymous" ELSE u.username

Entry(u, total) ==
  [evmAddress |-> u.evmAddress, username |-> DisplayName(u),
   totalLivePnl |-> total]

\* leaderboard.sort((a, b) => b.totalLivePnl - a.totalLivePnl): Array.prototype.sort
\* is stable, so an entry goes after every entry that is not smaller.
RECURSIVE InsertDesc(_, _)
InsertDesc(e, s) ==
  IF s = <<>> THEN <<e>>
  ELSE IF Head(s).totalLivePnl >= e.totalLivePnl
       THEN <<Head(s)>> \o InsertDesc(e, Tail(s))
       ELSE <<e>> \o s

RECURSIVE InsertDescUnstable(_, _)
InsertDescUnstable(e, s) ==
  IF s = <<>> THEN <<e>>
  ELSE IF Head(s).totalLivePnl > e.totalLivePnl
       THEN <<Head(s)>> \o InsertDescUnstable(e, Tail(s))
       ELSE <<e>> \o s

RECURSIVE SortWith(_, _)
SortWith(s, k) ==
  IF k = 0 THEN <<>>
  ELSE InsertDesc(s[k], SortWith(s, k - 1))

RECURSIVE SortUnstableWith(_, _)
SortUnstableWith(s, k) ==
  IF k = 0 THEN <<>>
  ELSE InsertDescUnstable(s[k], SortUnstableWith(s, k - 1))

SortUnstable(s) == SortUnstableWith(s, Len(s))
NoSort(s) == s
SortDesc(s) == SortWith(s, Len(s))

\* ------------------------------------------------------------------ state
VARIABLES
  now,             \* Date.now(), in epoch seconds
  ticks,           \* clock steps taken so far
  squads,          \* table squads: set of rows [id, name, inviteCode]
  squadMembers,    \* table squad_members: bag of rows <<squadId, userId>>
  usersTable,      \* table users: rows in the order the store returns them
  upstream,        \* market-data service: trading identity -> its response
  pnlCache,        \* pnlCache: key -> <<>> or <<[v, t]>>, t the write time
  squadWinners,    \* table squad_winners: bag of rows
  broadcasts,      \* 'bot:broadcast' messages emitted, in order
  chat,            \* the bot's socket: connected?, messages delivered, buffered
  calls,           \* calculate-winner requests started so far
  pc,              \* per request slot: the await the handler is suspended at
  req,             \* per slot: the request (kind, squadId, userId, timeframe)
  squad,           \* per slot: the squad row found or created, <<>> when none
  userIds,         \* per slot: memberRows.map(m => m.userId)
  users,           \* per slot: the profile rows returned
  startTimestamp,  \* per slot: the cutoff, <<>> when null
  results,         \* per slot: per profile, <<>> while its fetch is pending
  fetched,         \* per slot: per profile, the market-data response received
  fetchCount,      \* per slot: per profile, market-data calls issued for it
  leaderboard,     \* per slot: the winner handler's leaderboard
  week,            \* per slot: the winner handler's week number
  existingWinner,  \* per slot: the row the winner lookup returned
  emitted,         \* per slot: announcements emitted by the request
  res,             \* per slot: the response sent, <<>> while none
  token,           \* useAuthStore: the session token, <<>> when null
  user,            \* useAuthStore: the logged-in profile, <<>> when null
  walletVerified,  \* useAuthStore: the verification flag
  isConnected,     \* useAccount(): a wallet is connected
  address,         \* useAccount(): its address, <<>> when undefined
  page,            \* the route whose page is mounted
  deps,            \* ProfilePage: dependencies its wallet effect last ran with
  api              \* api.login and api.updateProfile calls awaiting a response

globals == <<now, ticks, squads, squadMembers, usersTable, upstream, pnlCache,
             squadWinners, broadcasts, chat, calls>>
locals == <<pc, req, squad, userIds, users, startTimestamp, results, fetched,
            fetchCount, leaderboard, week, existingWinner, emitted, res>>
\* The browser: the auth store, the wallet hook and the mounted page.
browser == <<token, user, walletVerified, isConnected, address, page, deps, api>>
vars == <<globals, locals, browser>>

\* null and undefined.
Null == <<>>

\* A page load: the store's initial state, no wallet, the home page.
InitBrowser ==
  /\ token = Null
  /\ user = Null
  /\ walletVerified = FALSE
  /\ isConnected = FALSE
  /\ address = Null
  /\ page = "/"
  /\ deps = Null
  /\ api = {}

\* ------------------------------------------------------------- pnlCache
\* `leaderboard:${squadId}:${timeframe}` and `leaderboard:${squadId}`: the
\* strings the templates build, squadId being the integer parseInt returned.
LeaderboardKeySquadOnly(s, tf) == "leaderboard:" \o ToString(s)
\* `${timeframe}`: the text the template makes of the query value.  The
\* value is cast, not checked: a bracketed or repeated query parameter
\* arrives as an array, written "[x]" here for ['x'], and an array prints as
\* its elements joined by commas, ['x'] as x.
TemplateText(tf) ==
  IF tf = "[all]" THEN "all" ELSE IF tf = "[weekly]" THEN "weekly" ELSE tf
LeaderboardKey(s, tf) ==
  "leaderboard:" \o ToString(s) \o ":" \o TemplateText(tf)
WinnerKeyAllTime(s) == LeaderboardKey(s, "all")
WinnerKey(s) == "leaderboard:" \o ToString(s)

\* node-cache keeps the expiry instant t + stdTTL and treats an entry as
\* expired once that instant is before Date.now().
ExpiredNever(e, t) == FALSE
Expired(e, t) == e.t + stdTTL < t

\* pnlCache.get(key): <<>> is undefined.
CacheGet(cache, k, t) ==
  IF k \in DOMAIN cache /\ ~Expired(cache[k], t) THEN <<cache[k].v>> ELSE <<>>

\* The cache after get(key): a get that finds the entry expired deletes it.
CacheAfterGet(cache, k, t) ==
  IF k \in DOMAIN cache /\ Expired(cache[k], t)
  THEN [x \in DOMAIN cache \ {k} |-> cache[x]]
  ELSE cache

\* pnlCache.set(key, value): overwrites and restarts the time to live.
CacheSetKeep(cache, k, v, t) ==
  IF k \in DOMAIN cache THEN cache
  ELSE [x \in DOMAIN cache \cup {k} |-> IF x = k THEN [v |-> v, t |-> t] ELSE cache[x]]
CacheSet(cache, k, v, t) ==
  [x \in DOMAIN cache \cup {k} |-> IF x = k THEN [v |-> v, t |-> t] ELSE cache[x]]

\* ------------------------------------------------------------ responses
JsonLeaderboard(lb) ==
  [status |-> 200, body |-> "leaderboard", leaderboard |-> lb, winner |-> <<>>]
JsonError(status, message) ==
  [status |-> status, body |-> message, leaderboard |-> <<>>, winner |-> <<>>]
JsonWinner(w, wk) ==
  [status |-> 200, body |-> "Winner calculated successfully",
   leaderboard |-> <<>>,
   winner |-> <<[evmAddress |-> w.evmAddress, username |-> w.username,
                 pnl |-> w.totalLivePnl, week |-> wk]>>]

\* --------------------------------------------------------------- stores
\* squad_members .eq(squadId).eq(userId).single(): a row iff exactly one matches.
MemberOfAnySquad(s, u) == \E t \in SquadIds : BagIn(<<t, u>>, squadMembers)
IsMember(s, u) == CopiesIn(<<s, u>>, squadMembers) = 1
\* squad_members .select('userId').eq('squadId', squadId)
MemberIds(s) == {m[2] : m \in {x \in BagToSet(squadMembers) : x[1] = s}}
\* users .in('evmAddress', userIds): the matching rows, in store order.
ProfilesOf(ids) == SelectSeq(usersTable, LAMBDA u : u.evmAddress \in ids)

\* The start of one profile's task: with no trading identity it resolves at
\* once to a zero entry and calls nothing; otherwise its two fetches go out.
StartTaskAlwaysFetch(u) == [result |-> <<>>, calls |-> 2]
StartTask(u) ==
  IF u.polymarketUserAddress = NoAddr
  THEN [result |-> <<Entry(u, 0)>>, calls |-> 0]
  ELSE [result |-> <<>>, calls |-> 2]
Settled(rs) == \A i \in 1..Len(rs) : rs[i] # <<>>
Entries(rs) == [i \in 1..Len(rs) |-> rs[i][1]]

\* ----------------------------------------------------- a request begins
Begin(p, r) ==
  /\ pc[p] \in {"idle", "done"}
  /\ req' = [req EXCEPT ![p] = r]
  /\ squad' = [squad EXCEPT ![p] = <<>>]
  /\ userIds' = [userIds EXCEPT ![p] = {}]
  /\ users' = [users EXCEPT ![p] = <<>>]
  /\ startTimestamp' = [startTimestamp EXCEPT ![p] = <<>>]
  /\ results' = [results EXCEPT ![p] = <<>>]
  /\ fetched' = [fetched EXCEPT ![p] = <<>>]
  /\ fetchCount' = [fetchCount EXCEPT ![p] = <<>>]
  /\ leaderboard' = [leaderboard EXCEPT ![p] = <<>>]
  /\ week' = [week EXCEPT ![p] = 0]
  /\ existingWinner' = [existingWinner EXCEPT ![p] = <<>>]
  /\ emitted' = [emitted EXCEPT ![p] = 0]
  /\ res' = [res EXCEPT ![p] = <<>>]
  /\ UNCHANGED browser

Respond(p, r) ==
  /\ res' = [res EXCEPT ![p] = <<r>>]
  /\ pc' = [pc EXCEPT ![p] = "done"]

\* ------------------------------------------------ GET /:id/leaderboard
\* The request arrives and the membership lookup is issued.
GetLeaderboard(p, s, u, q) ==
  /\ Begin(p, [kind |-> "leaderboard", squadId |-> s, userId |-> u,
               timeframe |-> TimeframeOf(q)])
  /\ pc' = [pc EXCEPT ![p] = "gl_auth"]
  /\ UNCHANGED globals

\* The membership lookup resolves; a member goes on to the cache.
LbAuth(p) ==
  /\ pc[p] = "gl_auth"
  /\ \E dbOk \in BOOLEAN :
       LET s == req[p].squadId
           key == LeaderboardKey(s, req[p].timeframe)
           cached == CacheGet(pnlCache, key, now)
       IN IF ~(dbOk /\ IsMember(s, req[p].userId))
          THEN /\ Respond(p, JsonError(403, "You are not a member of this squad"))
               /\ UNCHANGED pnlCache
          ELSE IF cached # <<>>
          THEN /\ Respond(p, JsonLeaderboard(cached[1]))
               /\ UNCHANGED pnlCache
          ELSE /\ pnlCache' = CacheAfterGet(pnlCache, key, now)
               /\ pc' = [pc EXCEPT ![p] = "gl_members"]
               /\ UNCHANGED res
  /\ UNCHANGED <<now, ticks, squads, squadMembers, usersTable, upstream, squadWinners,
                 broadcasts, chat, calls>>
  /\ UNCHANGED browser
  /\ UNCHANGED <<req, squad, userIds, users, startTimestamp, results, fetched,
                 fetchCount, leaderboard, week, existingWinner, emitted>>

\* The member list resolves.
LbMembersRejectsEmpty(p) ==
  /\ pc[p] = "gl_members"
  /\ \E dbOk \in BOOLEAN :
       LET ids == MemberIds(req[p].squadId)
       IN IF ~dbOk \/ ids = {}
          THEN /\ Respond(p, JsonError(400, "No members in squad"))
               /\ UNCHANGED userIds
          ELSE /\ userIds' = [userIds EXCEPT ![p] = ids]
               /\ pc' = [pc EXCEPT ![p] = "gl_users"]
               /\ UNCHANGED res
  /\ UNCHANGED globals
  /\ UNCHANGED browser
  /\ UNCHANGED <<req, squad, users, startTimestamp, results, fetched, fetchCount,
                 leaderboard, week, existingWinner, emitted>>
LbMembersCachesEmpty(p) ==
  /\ pc[p] = "gl_members"
  /\ \E dbOk \in BOOLEAN :
       LET ids == MemberIds(req[p].squadId)
       IN IF ~dbOk \/ ids = {}
          THEN /\ pnlCache' = CacheSet(pnlCache,
                                        LeaderboardKey(req[p].squadId,
                                                       req[p].timeframe),
                                        <<>>, now)
               /\ Respond(p, JsonLeaderboard(<<>>))
               /\ UNCHANGED userIds
          ELSE /\ userIds' = [userIds EXCEPT ![p] = ids]
               /\ pc' = [pc EXCEPT ![p] = "gl_users"]
               /\ UNCHANGED <<res, pnlCache>>
  /\ UNCHANGED <<now, ticks, squads, squadMembers, usersTable, upstream, squadWinners,
                 broadcasts, chat, calls>>
  /\ UNCHANGED browser
  /\ UNCHANGED <<req, squad, users, startTimestamp, results, fetched, fetchCount,
                 leaderboard, week, existingWinner, emitted>>
LbMembers(p) ==
  /\ pc[p] = "gl_members"
  /\ \E dbOk \in BOOLEAN :
       LET ids == MemberIds(req[p].squadId)
       IN IF ~dbOk \/ ids = {}
          THEN /\ Respond(p, JsonLeaderboard(<<>>))
               /\ UNCHANGED userIds
          ELSE /\ userIds' = [userIds EXCEPT ![p] = ids]
               /\ pc' = [pc EXCEPT ![p] = "gl_users"]
               /\ UNCHANGED res
  /\ UNCHANGED globals
  /\ UNCHANGED browser
  /\ UNCHANGED <<req, squad, users, startTimestamp, results, fetched, fetchCount,
                 leaderboard, week, existingWinner, emitted>>

\* The end of a build: sort, cache, respond.
LbFinishAppends(p, rs) ==
  LET key == LeaderboardKey(req[p].squadId, req[p].timeframe)
      old == CacheGet(pnlCache, key, now)
      lb == SortDesc(Entries(rs) \o (IF old = <<>> THEN <<>> ELSE old[1]))
  IN /\ pnlCache' = CacheSet(pnlCache, key, lb, now)
     /\ Respond(p, JsonLeaderboard(lb))
LbFinish(p, rs) ==
  LET lb == SortDesc(Entries(rs))
      key == LeaderboardKey(req[p].squadId, req[p].timeframe)
  IN /\ pnlCache' = CacheSet(pnlCache, key, lb, now)
     /\ Respond(p, JsonLeaderboard(lb))

\* The profile rows resolve: the cutoff is fixed and one task per profile
\* starts; a profile with no trading identity resolves at once, the others
\* issue their two fetches.
LbUsers(p) ==
  /\ pc[p] = "gl_users"
  /\ \E dbOk \in BOOLEAN :
       IF ~dbOk
       THEN /\ Respond(p, JsonError(500, "Failed to fetch users"))
            /\ UNCHANGED <<users, startTimestamp, results, fetched,
                           fetchCount, pnlCache>>
       ELSE LET us == ProfilesOf(userIds[p])
                rs == [i \in 1..Len(us) |-> StartTask(us[i]).result]
            IN /\ users' = [users EXCEPT ![p] = us]
               /\ startTimestamp' = [startTimestamp EXCEPT ![p] =
                                       StartTimestamp(req[p].timeframe, now)]
               /\ results' = [results EXCEPT ![p] = rs]
               /\ fetched' = [fetched EXCEPT ![p] = [i \in 1..Len(us) |-> <<>>]]
               /\ fetchCount' = [fetchCount EXCEPT ![p] =
                                   [i \in 1..Len(us) |-> StartTask(us[i]).calls]]
               /\ IF Settled(rs)
                  THEN LbFinish(p, rs)
                  ELSE /\ pc' = [pc EXCEPT ![p] = "gl_fetch"]
                       /\ UNCHANGED <<res, pnlCache>>
  /\ UNCHANGED <<now, ticks, squads, squadMembers, usersTable, upstream, squadWinners,
                 broadcasts, chat, calls>>
  /\ UNCHANGED browser
  /\ UNCHANGED <<req, squad, userIds, leaderboard, week, existingWinner, emitted>>

\* The two fetches of profile i settle; when it is the last one, the build ends.
LbSettleEarly(p, i) ==
  /\ pc[p] = "gl_fetch"
  /\ i \in 1..Len(results[p])
  /\ results[p][i] = <<>>
  /\ LET r == upstream[users[p][i].polymarketUserAddress]
         e == Entry(users[p][i],
                    LeaderboardTotal(r, req[p].timeframe, startTimestamp[p]))
         rs == [results[p] EXCEPT ![i] = <<e>>]
     IN /\ results' = [results EXCEPT ![p] = rs]
        /\ fetched' = [fetched EXCEPT ![p][i] = <<r>>]
        /\ LbFinish(p, SelectSeq(rs, LAMBDA x : x # <<>>))
  /\ UNCHANGED <<now, ticks, squads, squadMembers, usersTable, upstream, squadWinners,
                 broadcasts, chat, calls>>
  /\ UNCHANGED browser
  /\ UNCHANGED <<req, squad, userIds, users, startTimestamp, fetchCount, leaderboard,
                 week, existingWinner, emitted>>
LbSettle(p, i) ==
  /\ pc[p] = "gl_fetch"
  /\ i \in 1..Len(results[p])
  /\ results[p][i] = <<>>
  /\ LET r == upstream[users[p][i].polymarketUserAddress]
         e == Entry(users[p][i],
                    LeaderboardTotal(r, req[p].timeframe, startTimestamp[p]))
         rs == [results[p] EXCEPT ![i] = <<e>>]
     IN /\ results' = [results EXCEPT ![p] = rs]
        /\ fetched' = [fetched EXCEPT ![p][i] = <<r>>]
        /\ IF Settled(rs)
           THEN LbFinish(p, rs)
           ELSE UNCHANGED <<pc, res, pnlCache>>
  /\ UNCHANGED <<now, ticks, squads, squadMembers, usersTable, upstream, squadWinners,
                 broadcasts, chat, calls>>
  /\ UNCHANGED browser
  /\ UNCHANGED <<req, squad, userIds, users, startTimestamp, fetchCount, leaderboard,
                 week, existingWinner, emitted>>

\* ------------------------------------------- POST /:id/calculate-winner
\* new Date(now.getFullYear(), 0, 1) for the years the model's clock can be
\* in (2026..2029), the server's zone being UTC.
YearStarts ==
  {Epoch0, Epoch0 + 365 * DaySeconds, Epoch0 + 730 * DaySeconds,
   Epoch0 + 1096 * DaySeconds}
StartOfYear(t) ==
  CHOOSE y \in YearStarts :
    y <= t /\ \A z \in YearStarts : z <= t => z <= y

\* Math.floor(diff / oneWeek) + 1
WeekOf(t) == ((t - StartOfYear(t)) \div WeekSeconds) + 1

\* The rows of squad_winners for (squad, week), as a bag.
WinnersOf(s, w) ==
  [r \in {x \in DOMAIN squadWinners : x.squadId = s /\ x.week = w}
     |-> squadWinners[r]]
WinnerCount(s, w) == BagCardinality(WinnersOf(s, w))

\* .eq('squadId', squadId).eq('week', week).single(): the row when exactly
\* one matches, no data otherwise.
FirstOf(s, w) ==
  IF WinnerCount(s, w) >= 1
  THEN <<CHOOSE r \in DOMAIN WinnersOf(s, w) : TRUE>> ELSE <<>>
Single(s, w) ==
  IF WinnerCount(s, w) = 1
  THEN <<CHOOSE r \in DOMAIN WinnersOf(s, w) : TRUE>> ELSE <<>>

\* .delete().eq('squadId', squadId).eq('week', week)
DeleteNone(s, w) == squadWinners
DeleteWinners(s, w) ==
  [r \in {x \in DOMAIN squadWinners : ~(x.squadId = s /\ x.week = w)}
     |-> squadWinners[r]]

\* .insert({ squadId, winnerAddress, week, pnl })
WinnerRow(s, w, wk) ==
  [squadId |-> s, winnerAddress |-> w.evmAddress, week |-> wk,
   pnl |-> w.totalLivePnl]
InsertUpsert(row) ==
  DeleteWinners(row.squadId, row.week) (+) SetToBag({row})
InsertWinner(row) == squadWinners (+) SetToBag({row})

\* The 'bot:broadcast' payload: week, name and the signed amount.
Announcement(s, w, wk) ==
  [squadId |-> s, week |-> wk, username |-> w.username,
   sign |-> IF w.totalLivePnl >= 0 THEN "+" ELSE "-",
   amount |-> Abs(w.totalLivePnl)]

\* The request arrives and the membership lookup is issued.
CalculateWinnerUpTo(p, s, u, n) ==
  /\ calls < n
  /\ Begin(p, [kind |-> "winner", squadId |-> s, userId |-> u,
               timeframe |-> ""])
  /\ pc' = [pc EXCEPT ![p] = "cw_auth"]
  /\ calls' = calls + 1
  /\ UNCHANGED <<now, ticks, squads, squadMembers, usersTable, upstream, pnlCache,
                 squadWinners, broadcasts, chat>>
CalculateWinner(p, s, u) == CalculateWinnerUpTo(p, s, u, MaxCalls)

\* With a leaderboard in hand: reject an empty one, else fix the week and
\* issue the winner lookup.
CwRankUnchecked(p, lb) ==
  /\ leaderboard' = [leaderboard EXCEPT ![p] = lb]
  /\ week' = [week EXCEPT ![p] = WeekOf(now)]
  /\ pc' = [pc EXCEPT ![p] = "cw_find"]
  /\ UNCHANGED res
CwRank(p, lb) ==
  /\ leaderboard' = [leaderboard EXCEPT ![p] = lb]
  /\ IF Len(lb) = 0
     THEN /\ Respond(p, JsonError(400, "No leaderboard data available"))
          /\ UNCHANGED week
     ELSE /\ week' = [week EXCEPT ![p] = WeekOf(now)]
          /\ pc' = [pc EXCEPT ![p] = "cw_find"]
          /\ UNCHANGED res

\* The membership lookup resolves; a member goes on to the cache.
CwAuth(p) ==
  /\ pc[p] = "cw_auth"
  /\ \E dbOk \in BOOLEAN :
       LET s == req[p].squadId
           key == WinnerKey(s)
           cached == CacheGet(pnlCache, key, now)
       IN IF ~(dbOk /\ IsMember(s, req[p].userId))
          THEN /\ Respond(p, JsonError(403, "You are not a member of this squad"))
               /\ UNCHANGED <<pnlCache, leaderboard, week>>
          ELSE IF cached # <<>>
          THEN /\ CwRank(p, cached[1])
               /\ UNCHANGED pnlCache
          ELSE /\ pnlCache' = CacheAfterGet(pnlCache, key, now)
               /\ pc' = [pc EXCEPT ![p] = "cw_members"]
               /\ UNCHANGED <<res, leaderboard, week>>
  /\ UNCHANGED <<now, ticks, squads, squadMembers, usersTable, upstream, squadWinners,
                 broadcasts, chat, calls>>
  /\ UNCHANGED browser
  /\ UNCHANGED <<req, squad, userIds, users, startTimestamp, results, fetched,
                 fetchCount, existingWinner, emitted>>

\* The member list resolves.
CwMembers(p) ==
  /\ pc[p] = "cw_members"
  /\ \E dbOk \in BOOLEAN :
       LET ids == MemberIds(req[p].squadId)
       IN IF ~dbOk \/ ids = {}
          THEN /\ Respond(p, JsonError(400, "No members in squad"))
               /\ UNCHANGED userIds
          ELSE /\ userIds' = [userIds EXCEPT ![p] = ids]
               /\ pc' = [pc EXCEPT ![p] = "cw_users"]
               /\ UNCHANGED res
  /\ UNCHANGED globals
  /\ UNCHANGED browser
  /\ UNCHANGED <<req, squad, users, startTimestamp, results, fetched, fetchCount,
                 leaderboard, week, existingWinner, emitted>>

\* The profile rows resolve and one task per profile starts.
CwUsers(p) ==
  /\ pc[p] = "cw_users"
  /\ \E dbOk \in BOOLEAN :
       IF ~dbOk
       THEN /\ Respond(p, JsonError(500, "Failed to fetch users"))
            /\ UNCHANGED <<users, results, fetched, fetchCount, leaderboard,
                           week>>
       ELSE LET us == ProfilesOf(userIds[p])
                rs == [i \in 1..Len(us) |-> StartTask(us[i]).result]
            IN /\ users' = [users EXCEPT ![p] = us]
               /\ results' = [results EXCEPT ![p] = rs]
               /\ fetched' = [fetched EXCEPT ![p] = [i \in 1..Len(us) |-> <<>>]]
               /\ fetchCount' = [fetchCount EXCEPT ![p] =
                                   [i \in 1..Len(us) |-> StartTask(us[i]).calls]]
               /\ IF Settled(rs)
                  THEN CwRank(p, SortDesc(Entries(rs)))
                  ELSE /\ pc' = [pc EXCEPT ![p] = "cw_fetch"]
                       /\ UNCHANGED <<res, leaderboard, week>>
  /\ UNCHANGED globals
  /\ UNCHANGED browser
  /\ UNCHANGED <<req, squad, userIds, startTimestamp, existingWinner, emitted>>

\* The two fetches of profile i settle; after the last one the entries are
\* sorted and ranked.
CwSettle(p, i) ==
  /\ pc[p] = "cw_fetch"
  /\ i \in 1..Len(results[p])
  /\ results[p][i] = <<>>
  /\ LET r == upstream[users[p][i].polymarketUserAddress]
         e == Entry(users[p][i], WinnerTotal(r))
         rs == [results[p] EXCEPT ![i] = <<e>>]
     IN /\ results' = [results EXCEPT ![p] = rs]
        /\ fetched' = [fetched EXCEPT ![p][i] = <<r>>]
        /\ IF Settled(rs)
           THEN CwRank(p, SortDesc(Entries(rs)))
           ELSE UNCHANGED <<pc, res, leaderboard, week>>
  /\ UNCHANGED globals
  /\ UNCHANGED browser
  /\ UNCHANGED <<req, squad, userIds, users, startTimestamp, fetchCount,
                 existingWinner, emitted>>

\* The winner lookup resolves: a row found is deleted next, else the insert
\* is issued.
CwFind(p) ==
  /\ pc[p] = "cw_find"
  /\ LET found == Single(req[p].squadId, week[p])
     IN /\ existingWinner' = [existingWinner EXCEPT ![p] = found]
        /\ pc' = [pc EXCEPT ![p] = IF found # <<>> THEN "cw_delete"
                                   ELSE "cw_insert"]
  /\ UNCHANGED globals
  /\ UNCHANGED browser
  /\ UNCHANGED <<req, squad, userIds, users, startTimestamp, results, fetched,
                 fetchCount, leaderboard, week, emitted, res>>

\* The delete resolves and the insert is issued.
CwDelete(p) ==
  /\ pc[p] = "cw_delete"
  /\ squadWinners' = DeleteWinners(req[p].squadId, week[p])
  /\ pc' = [pc EXCEPT ![p] = "cw_insert"]
  /\ UNCHANGED <<now, ticks, squads, squadMembers, usersTable, upstream, pnlCache,
                 broadcasts, chat, calls>>
  /\ UNCHANGED browser
  /\ UNCHANGED <<req, squad, userIds, users, startTimestamp, results, fetched,
                 fetchCount, leaderboard, week, existingWinner, emitted, res>>

\* socket.emit on the bot's socket returns at once: the message goes out when
\* the socket is connected and is buffered for the next connection otherwise.
Emit(c) ==
  IF c.up THEN [c EXCEPT !.delivered = @ + 1]
  ELSE [c EXCEPT !.buffered = @ + 1]

\* The announcements made so far for squad s and week w.
Announced(s, w) ==
  {k \in 1..Len(broadcasts) :
     broadcasts[k].squadId = s /\ broadcasts[k].week = w}

\* socket.emit('bot:broadcast', ...) followed by the success response.
AnnounceOncePerWeek(p) ==
  LET w == leaderboard[p][1]
  IN /\ broadcasts' =
          IF Announced(req[p].squadId, week[p]) # {} THEN broadcasts
          ELSE Append(broadcasts, Announcement(req[p].squadId, w, week[p]))
     /\ chat' = IF Announced(req[p].squadId, week[p]) # {} THEN chat
                ELSE Emit(chat)
     /\ emitted' = [emitted EXCEPT ![p] =
                      IF Announced(req[p].squadId, week[p]) # {} THEN @
                      ELSE @ + 1]
     /\ Respond(p, JsonWinner(w, week[p]))
Announce(p) ==
  LET w == leaderboard[p][1]
  IN /\ broadcasts' = Append(broadcasts,
                             Announcement(req[p].squadId, w, week[p]))
     /\ chat' = Emit(chat)
     /\ emitted' = [emitted EXCEPT ![p] = @ + 1]
     /\ Respond(p, JsonWinner(w, week[p]))

\* The insert resolves: on an error the handler answers 500, else it
\* announces the winner and answers with the summary.
CwInsertAnnounceFirst(p) ==
  /\ pc[p] = "cw_insert"
  /\ \E dbOk \in BOOLEAN :
       IF ~dbOk
       THEN /\ broadcasts' =
                 Append(broadcasts,
                        Announcement(req[p].squadId, leaderboard[p][1], week[p]))
            /\ chat' = Emit(chat)
            /\ emitted' = [emitted EXCEPT ![p] = @ + 1]
            /\ Respond(p, JsonError(500, "Failed to save winner"))
            /\ UNCHANGED squadWinners
       ELSE /\ squadWinners' =
                 InsertWinner(WinnerRow(req[p].squadId, leaderboard[p][1],
                                        week[p]))
            /\ Announce(p)
  /\ UNCHANGED <<now, ticks, squads, squadMembers, usersTable, upstream, pnlCache,
                 calls>>
  /\ UNCHANGED browser
  /\ UNCHANGED <<req, squad, userIds, users, startTimestamp, results, fetched,
                 fetchCount, leaderboard, week, existingWinner>>
CwInsertNeedsChat(p) ==
  /\ pc[p] = "cw_insert"
  /\ \E dbOk \in BOOLEAN :
       IF ~dbOk
       THEN /\ Respond(p, JsonError(500, "Failed to save winner"))
            /\ UNCHANGED <<squadWinners, broadcasts, chat, emitted>>
       ELSE /\ squadWinners' =
                 InsertWinner(WinnerRow(req[p].squadId, leaderboard[p][1],
                                        week[p]))
            /\ IF chat.up THEN Announce(p)
               ELSE /\ Respond(p, JsonError(500, "Internal server error"))
                    /\ UNCHANGED <<broadcasts, chat, emitted>>
  /\ UNCHANGED <<now, ticks, squads, squadMembers, usersTable, upstream, pnlCache,
                 calls>>
  /\ UNCHANGED browser
  /\ UNCHANGED <<req, squad, userIds, users, startTimestamp, results, fetched,
                 fetchCount, leaderboard, week, existingWinner>>
CwInsertThenDelete(p) ==
  /\ pc[p] = "cw_insert"
  /\ \E dbOk \in BOOLEAN :
       IF ~dbOk
       THEN /\ Respond(p, JsonError(500, "Failed to save winner"))
            /\ UNCHANGED <<squadWinners, broadcasts, chat, emitted>>
       ELSE /\ squadWinners' =
                 IF existingWinner[p] = <<>>
                 THEN InsertWinner(WinnerRow(req[p].squadId, leaderboard[p][1],
                                             week[p]))
                 ELSE DeleteWinners(req[p].squadId, week[p])
            /\ Announce(p)
  /\ UNCHANGED <<now, ticks, squads, squadMembers, usersTable, upstream, pnlCache,
                 calls>>
  /\ UNCHANGED browser
  /\ UNCHANGED <<req, squad, userIds, users, startTimestamp, results, fetched,
                 fetchCount, leaderboard, week, existingWinner>>
CwInsert(p) ==
  /\ pc[p] = "cw_insert"
  /\ \E dbOk \in BOOLEAN :
       IF ~dbOk
       THEN /\ Respond(p, JsonError(500, "Failed to save winner"))
            /\ UNCHANGED <<squadWinners, broadcasts, chat, emitted>>
       ELSE /\ squadWinners' =
                 InsertWinner(WinnerRow(req[p].squadId, leaderboard[p][1],
                                        week[p]))
            /\ Announce(p)
  /\ UNCHANGED <<now, ticks, squads, squadMembers, usersTable, upstream, pnlCache,
                 calls>>
  /\ UNCHANGED browser
  /\ UNCHANGED <<req, squad, userIds, users, startTimestamp, results, fetched,
                 fetchCount, leaderboard, week, existingWinner>>

\* ---------------------------------------------------------- environment
\* The market data of trading identity a becomes r.
MarketMoves(a, r) ==
  /\ upstream[a] # r
  /\ upstream' = [upstream EXCEPT ![a] = r]
  /\ UNCHANGED <<now, ticks, squads, squadMembers, usersTable, pnlCache, squadWinners,
                 broadcasts, chat, calls>>
  /\ UNCHANGED <<browser, locals>>

\* The squad_members row m is removed in the store by someone else (the
\* router itself has no route that removes a member).
MemberRemoved(m) ==
  /\ BagIn(m, squadMembers)
  /\ squadMembers' = squadMembers (-) SetToBag({m})
  /\ UNCHANGED <<now, ticks, squads, usersTable, upstream, pnlCache, squadWinners,
                 broadcasts, chat, calls>>
  /\ UNCHANGED <<browser, locals>>

\* ---------------------------------------------------------------- clock
\* Time passes by d seconds.
Tick(d) ==
  /\ ticks < MaxTicks
  /\ now' = now + d
  /\ ticks' = ticks + 1
  /\ UNCHANGED <<squads, squadMembers, usersTable, upstream, pnlCache, squadWinners,
                 broadcasts, chat, calls>>
  /\ UNCHANGED <<browser, locals>>

\* The bot's socket drops its connection.
ChatDisconnects ==
  /\ chat.up
  /\ chat' = [chat EXCEPT !.up = FALSE]
  /\ UNCHANGED <<now, ticks, squads, squadMembers, usersTable, upstream, pnlCache,
                 squadWinners, broadcasts, calls>>
  /\ UNCHANGED <<browser, locals>>

\* The socket reconnects and sends what it buffered.
ChatReconnects ==
  /\ ~chat.up
  /\ chat' = [up |-> TRUE, delivered |-> chat.delivered + chat.buffered,
              buffered |-> 0]
  /\ UNCHANGED <<now, ticks, squads, squadMembers, usersTable, upstream, pnlCache,
                 squadWinners, broadcasts, calls>>
  /\ UNCHANGED <<browser, locals>>

\* A buffered message is lost for good.
ChatLoses ==
  /\ chat.buffered > 0
  /\ chat' = [chat EXCEPT !.buffered = @ - 1]
  /\ UNCHANGED <<now, ticks, squads, squadMembers, usersTable, upstream, pnlCache,
                 squadWinners, broadcasts, calls>>
  /\ UNCHANGED <<browser, locals>>

\* ------------------------------------------------------ the squads table
\* "Squad is full (max 10 members)": the size the join route compares with.
MaxMembers == 10

SquadRow(i, name, code) == [id |-> i, name |-> name, inviteCode |-> code]
\* squads .eq('inviteCode', code).single(): the row iff exactly one matches.
SquadByCode(c) ==
  LET rows == {r \in squads : r.inviteCode = c}
  IN IF Cardinality(rows) = 1 THEN <<CHOOSE r \in rows : TRUE>> ELSE <<>>
\* squads .eq('id', squadId).single()
SquadById(i) ==
  LET rows == {r \in squads : r.id = i}
  IN IF Cardinality(rows) = 1 THEN <<CHOOSE r \in rows : TRUE>> ELSE <<>>
\* The serial id the store gives the next inserted squad.
NextSquadId ==
  IF squads = {} THEN 1
  ELSE 1 + (CHOOSE i \in {r.id : r \in squads} :
              \A j \in {r.id : r \in squads} : j <= i)
\* squad_members .select('userId').eq('squadId', squadId): the rows, one
\* per stored row, so that members.length counts rows.
MemberRows(s) ==
  [m \in {x \in DOMAIN squadMembers : x[1] = s} |-> squadMembers[m]]
MemberCount(s) == BagCardinality(MemberRows(s))
\* .insert({ squadId, userId })
InsertMember(s, u) == squadMembers (+) SetToBag({<<s, u>>})

\* req.body values and what trim() and toUpperCase() make of them.
JoinCodes == {"", " squad1"}
TrimUpper(c) == IF c = " squad1" THEN "SQUAD1" ELSE c
SquadNames == {"  ", " Degens "}
Trim(n) == IF n = " Degens " THEN "Degens" ELSE IF n = "  " THEN "" ELSE n
\* generateInviteCode(): six random characters; two of its values.
NewCodes == {"SQUAD1", "SQUAD7"}

\* What a squads-route step leaves alone: the other handlers' locals.
boardLocals == <<userIds, users, startTimestamp, results, fetched,
                 fetchCount, leaderboard, week, existingWinner, emitted>>
boardStores == <<now, ticks, usersTable, upstream, pnlCache, squadWinners,
                 broadcasts, chat, calls>>

\* getSquadWithMembers(squadId): null when a lookup fails, else the squad
\* with the profiles of its member rows.
SquadWithMembers(i, dbOk) ==
  IF ~dbOk \/ SquadById(i) = <<>> THEN <<>>
  ELSE <<[id |-> i, inviteCode |-> SquadById(i)[1].inviteCode,
          members |-> ProfilesOf(MemberIds(i))]>>
JsonSquad(full) == [status |-> 200, squad |-> full, message |-> ""]
JsonSquadAlready(full) ==
  [status |-> 200, squad |-> full,
   message |-> "You are already a member of this squad"]
ServerError == JsonError(500, "Internal server error")

\* ------------------------------------------------------------ POST /join
\* The request arrives; authMiddleware hands it to the route.
JoinSquad(p, u, c) ==
  /\ Begin(p, [kind |-> "join", userId |-> u, inviteCode |-> c])
  /\ pc' = [pc EXCEPT ![p] = "jn_body"]
  /\ UNCHANGED globals

\* The body is checked and the squad lookup by invite code is issued.
JnBody(p) ==
  /\ pc[p] = "jn_body"
  /\ IF req[p].inviteCode = ""
     THEN Respond(p, JsonError(400, "Invite code is required"))
     ELSE /\ pc' = [pc EXCEPT ![p] = "jn_squad"]
          /\ UNCHANGED res
  /\ UNCHANGED globals
  /\ UNCHANGED browser
  /\ UNCHANGED <<req, squad, boardLocals>>

\* The squad lookup resolves.
JnSquad(p) ==
  /\ pc[p] = "jn_squad"
  /\ \E dbOk \in BOOLEAN :
       LET found == SquadByCode(TrimUpper(req[p].inviteCode))
       IN IF ~dbOk \/ found = <<>>
          THEN /\ Respond(p, JsonError(404, "Squad not found with that invite code"))
               /\ UNCHANGED squad
          ELSE /\ squad' = [squad EXCEPT ![p] = found]
               /\ pc' = [pc EXCEPT ![p] = "jn_existing"]
               /\ UNCHANGED res
  /\ UNCHANGED globals
  /\ UNCHANGED browser
  /\ UNCHANGED <<req, boardLocals>>

\* The existing-member lookup resolves: only its data is looked at.
JnExisting(p) ==
  /\ pc[p] = "jn_existing"
  /\ \E dbOk \in BOOLEAN :
       IF dbOk /\ CopiesIn(<<squad[p][1].id, req[p].userId>>, squadMembers) = 1
       THEN pc' = [pc EXCEPT ![p] = "jn_already"]
       ELSE pc' = [pc EXCEPT ![p] = "jn_count"]
  /\ UNCHANGED globals
  /\ UNCHANGED browser
  /\ UNCHANGED <<req, squad, res, boardLocals>>

\* The member rows resolve; the size check decides and the insert goes out.
JnCount(p) ==
  /\ pc[p] = "jn_count"
  /\ \E dbOk \in BOOLEAN :
       IF ~dbOk THEN Respond(p, ServerError)
       ELSE IF MemberCount(squad[p][1].id) >= MaxMembers
       THEN Respond(p, JsonError(400, "Squad is full (max 10 members)"))
       ELSE /\ pc' = [pc EXCEPT ![p] = "jn_insert"]
            /\ UNCHANGED res
  /\ UNCHANGED globals
  /\ UNCHANGED browser
  /\ UNCHANGED <<req, squad, boardLocals>>

\* The insert of the membership row resolves.
JnInsert(p) ==
  /\ pc[p] = "jn_insert"
  /\ \E dbOk \in BOOLEAN :
       IF dbOk
       THEN /\ squadMembers' = InsertMember(squad[p][1].id, req[p].userId)
            /\ pc' = [pc EXCEPT ![p] = "jn_joined"]
            /\ UNCHANGED res
       ELSE /\ Respond(p, ServerError)
            /\ UNCHANGED squadMembers
  /\ UNCHANGED <<squads, boardStores>>
  /\ UNCHANGED browser
  /\ UNCHANGED <<req, squad, boardLocals>>

\* getSquadWithMembers resolves and the squad is returned.
JnReturn(p) ==
  /\ pc[p] \in {"jn_already", "jn_joined"}
  /\ \E dbOk \in BOOLEAN :
       LET full == SquadWithMembers(squad[p][1].id, dbOk)
       IN Respond(p, IF pc[p] = "jn_already" THEN JsonSquadAlready(full)
                     ELSE JsonSquad(full))
  /\ UNCHANGED globals
  /\ UNCHANGED browser
  /\ UNCHANGED <<req, squad, boardLocals>>

\* ---------------------------------------------------------- POST /create
CreateSquad(p, u, n) ==
  /\ Begin(p, [kind |-> "create", userId |-> u, name |-> n])
  /\ pc' = [pc EXCEPT ![p] = "cr_body"]
  /\ UNCHANGED globals

\* The name is checked, an invite code drawn and the squad insert issued.
CrBody(p) ==
  /\ pc[p] = "cr_body"
  /\ IF Trim(req[p].name) = ""
     THEN Respond(p, JsonError(400, "Squad name is required"))
     ELSE /\ pc' = [pc EXCEPT ![p] = "cr_squad"]
          /\ UNCHANGED res
  /\ UNCHANGED globals
  /\ UNCHANGED browser
  /\ UNCHANGED <<req, squad, boardLocals>>

\* The squad insert resolves; the creator's membership insert goes out.
\* (No insert succeeds once MaxSquads squads exist.)
CrSquad(p) ==
  /\ pc[p] = "cr_squad"
  /\ \E dbOk \in BOOLEAN, code \in NewCodes :
       IF dbOk /\ Cardinality(squads) < MaxSquads
       THEN LET row == SquadRow(NextSquadId, Trim(req[p].name), code)
            IN /\ squads' = squads \cup {row}
               /\ squad' = [squad EXCEPT ![p] = <<row>>]
               /\ pc' = [pc EXCEPT ![p] = "cr_member"]
               /\ UNCHANGED res
       ELSE /\ Respond(p, ServerError)
            /\ UNCHANGED <<squads, squad>>
  /\ UNCHANGED <<squadMembers, boardStores>>
  /\ UNCHANGED browser
  /\ UNCHANGED <<req, boardLocals>>

\* The creator's membership insert resolves.
CrMember(p) ==
  /\ pc[p] = "cr_member"
  /\ \E dbOk \in BOOLEAN :
       IF dbOk
       THEN /\ squadMembers' = InsertMember(squad[p][1].id, req[p].userId)
            /\ pc' = [pc EXCEPT ![p] = "cr_full"]
            /\ UNCHANGED res
       ELSE /\ Respond(p, ServerError)
            /\ UNCHANGED squadMembers
  /\ UNCHANGED <<squads, boardStores>>
  /\ UNCHANGED browser
  /\ UNCHANGED <<req, squad, boardLocals>>

\* getSquadWithMembers resolves and the new squad is returned.
CrReturn(p) ==
  /\ pc[p] = "cr_full"
  /\ \E dbOk \in BOOLEAN :
       Respond(p, JsonSquad(SquadWithMembers(squad[p][1].id, dbOk)))
  /\ UNCHANGED globals
  /\ UNCHANGED browser
  /\ UNCHANGED <<req, squad, boardLocals>>

\* ------------------------------------------------------- initial states
\* socketClient(BACKEND_URL, ...): connected, nothing sent.
Connected == [up |-> TRUE, delivered |-> 0, buffered |-> 0]

\* The squads the stored membership rows belong to.
CodeOf(s) == IF s < 10 THEN "SQUAD" \o ToString(s) ELSE "SQUA" \o ToString(s)
ExistingSquads(ms) ==
  {SquadRow(s, "Degens", CodeOf(s)) : s \in {m[1] : m \in BagToSet(ms)}}

InitLocals ==
  /\ pc = [p \in Procs |-> "idle"]
  /\ req = [p \in Procs |-> [kind |-> "", squadId |-> 0, userId |-> 0,
                              timeframe |-> ""]]
  /\ squad = [p \in Procs |-> <<>>]
  /\ userIds = [p \in Procs |-> {}]
  /\ users = [p \in Procs |-> <<>>]
  /\ startTimestamp = [p \in Procs |-> <<>>]
  /\ results = [p \in Procs |-> <<>>]
  /\ fetched = [p \in Procs |-> <<>>]
  /\ fetchCount = [p \in Procs |-> <<>>]
  /\ leaderboard = [p \in Procs |-> <<>>]
  /\ week = [p \in Procs |-> 0]
  /\ existingWinner = [p \in Procs |-> <<>>]
  /\ emitted = [p \in Procs |-> 0]
  /\ res = [p \in Procs |-> <<>>]

\* A process starts with an empty cache, no winners and nothing announced.
InitProcess ==
  /\ now = Epoch0
  /\ ticks = 0
  /\ pnlCache = <<>>
  /\ squadWinners = EmptyBag
  /\ broadcasts = <<>>
  /\ chat = Connected
  /\ calls = 0

UserRow(i, addr) ==
  [evmAddress |-> i, username |-> IF i % 2 = 0 THEN "" ELSE "trader",
   polymarketUserAddress |-> addr]

\* Market-data responses.  A thrown fetch and a non-ok status carry no body.
Throws ==
  [throws |-> TRUE, closedOk |-> FALSE, valueOk |-> FALSE, isArray |-> FALSE,
   closed |-> <<>>, value |-> <<>>]
ClosedNotOk ==
  [throws |-> FALSE, closedOk |-> FALSE, valueOk |-> TRUE, isArray |-> FALSE,
   closed |-> <<>>, value |-> <<>>]
ValueNotOk ==
  [throws |-> FALSE, closedOk |-> TRUE, valueOk |-> FALSE, isArray |-> FALSE,
   closed |-> <<>>, value |-> <<>>]
\* One of the two responses is not ok while the other carries its data.
ClosedNotOkWith(v) ==
  [throws |-> FALSE, closedOk |-> FALSE, valueOk |-> TRUE, isArray |-> FALSE,
   closed |-> <<>>, value |-> v]
ValueNotOkWith(ps) ==
  [throws |-> FALSE, closedOk |-> TRUE, valueOk |-> FALSE, isArray |-> TRUE,
   closed |-> ps, value |-> <<>>]
NotArray(v) ==
  [throws |-> FALSE, closedOk |-> TRUE, valueOk |-> TRUE, isArray |-> FALSE,
   closed |-> <<>>, value |-> v]
Ok(ps, v) ==
  [throws |-> FALSE, closedOk |-> TRUE, valueOk |-> TRUE, isArray |-> TRUE,
   closed |-> ps, value |-> v]
Position(pnl, ts) == [realizedPnl |-> pnl, timestamp |-> ts]

\* ------------------------------------------- the aggregation suite (SpecPnl)
\* One member with a trading identity, whose market data ranges over every
\* response with up to MaxPositions closed positions; one request at a time.
PnlValues == << <<1234>>, <<>>, <<0 - 335>> >>
Timestamps ==
  << <<>>, <<0>>, <<Epoch0 - WeekSeconds - 1>>, <<Epoch0 - WeekSeconds>>,
     <<Epoch0 - DaySeconds - 1>>, <<Epoch0 - DaySeconds>> >>
OpenValues == {<<>>, <<4>>, <<0 - 5>>}
NumPositions == Len(PnlValues) * Len(Timestamps)
PositionAt(k) ==
  Position(PnlValues[((k - 1) \div Len(Timestamps)) + 1],
           Timestamps[((k - 1) % Len(Timestamps)) + 1])
\* The service returns the positions sorted by realized PnL, descending.
ClosedLists ==
  UNION {{[i \in 1..n |-> PositionAt(f[i])] :
            f \in {g \in [1..n -> 1..NumPositions] :
                     \A i \in 1..(n - 1) : g[i] <= g[i + 1]}} :
         n \in 0..MaxPositions}
RichResponses ==
  {Ok(ps, v) : ps \in ClosedLists, v \in OpenValues}
    \cup {NotArray(v) : v \in OpenValues}
    \cup {Throws, ClosedNotOk, ValueNotOk}
Queries == {"", "all", "weekly", "daily", "monthly"}

InitPnl ==
  /\ InitLocals
  /\ InitBrowser
  /\ InitProcess
  /\ squadMembers = SetToBag({<<1, 1>>, <<1, 2>>})
  /\ squads = ExistingSquads(squadMembers)
  /\ usersTable = [i \in Users |-> UserRow(i, IF i = 1 THEN "pA" ELSE NoAddr)]
  /\ upstream \in {[a \in Addrs |-> IF a = "pA" THEN r ELSE Throws] :
                     r \in RichResponses}

NextPnl ==
  \/ \E u \in Users, q \in Queries :
       pc[1] = "idle" /\ GetLeaderboard(1, 1, u, q)
  \/ LbAuth(1)
  \/ LbMembers(1)
  \/ LbUsers(1)
  \/ \E i \in Users : LbSettle(1, i)

SpecPnl == InitPnl /\ [][NextPnl]_vars

\* y is x rounded to two decimals: a whole number of cents, nearest to x,
\* a half going away from zero.
IsRound2(y, x) ==
  /\ y % 10 = 0
  /\ Abs(y - x) <= 5
  /\ Abs(y - x) = 5 => Abs(y) > Abs(x)

RECURSIVE SumOver(_, _)
SumOver(S, ps) ==
  IF S = {} THEN 0
  ELSE LET i == CHOOSE j \in S : TRUE
       IN OrZero(ps[i].realizedPnl) + SumOver(S \ {i}, ps)

\* The profiles of slot p whose two fetches both succeeded.
Fetched(p) ==
  {i \in DOMAIN fetched[p] :
     fetched[p][i] # <<>> /\ ~Failed(fetched[p][i][1])}
TotalOf(p, i) == results[p][i][1].totalLivePnl

Counted(r, tf, t) ==
  {i \in 1..Len(r.closed) :
     LET ts == r.closed[i].timestamp
     IN CASE tf = "weekly" -> ts # <<>> /\ ts[1] # 0 /\ ts[1] >= t - WeekSeconds
          [] tf = "daily" -> ts # <<>> /\ ts[1] # 0 /\ ts[1] >= t - DaySeconds
          [] OTHER -> TRUE}

\* C7: with a cutoff active (weekly: now minus 7 days, daily: now minus 1 day,
\* in epoch seconds) the realized sum counts exactly the closed positions whose
\* timestamp is present and >= the cutoff; with `all` every returned closed
\* position counts, timestamp or not.
C7_CutoffFilter ==
  \A p \in Procs : \A i \in Fetched(p) :
    (req[p].kind = "leaderboard" /\ fetched[p][i][1].isArray
       /\ req[p].timeframe \in {"all", "daily", "weekly"}) =>
      LET r == fetched[p][i][1]
          tf == req[p].timeframe
          realized == SumOver(Counted(r, tf, now), r.closed)
      IN IsRound2(TotalOf(p, i),
                  realized + (IF tf = "all" THEN OrZero(r.value) ELSE 0))

\* A weekly build that kept a position stamped exactly at the cutoff and
\* dropped one stamped a second earlier and one with no timestamp.
C7_Witness ==
  \E p \in Procs : \E i \in Fetched(p) :
    LET r == fetched[p][i][1]
    IN /\ req[p].timeframe = "weekly"
       /\ pc[p] = "done"
       /\ Len(r.closed) = 2
       /\ r.closed[1] = Position(<<1234>>, <<now - WeekSeconds - 1>>)
       /\ r.closed[2] = Position(<<0 - 335>>, <<now - WeekSeconds>>)
       /\ TotalOf(p, i) = 0 - 340

\* ------------------------------------------------ the board suite (SpecBoard)
\* Every user is a member of squad 1 and nobody of squad 2; each has no
\* trading identity or one of two, whose market data is a failure or a
\* small success; a stored winner of the week may exist.  One request at a
\* time, of either handler.
Recent == <<Epoch0 - DaySeconds>>
Old == <<Epoch0 - WeekSeconds - 1>>
SmallResponses ==
  {Throws, ClosedNotOkWith(<<4>>),
   ValueNotOkWith(<<Position(<<1234>>, Recent)>>),
   Ok(<<Position(<<1234>>, Recent)>>, <<4>>),
   Ok(<<Position(<<0 - 335>>, Old)>>, <<>>)}
StoredWinner == [squadId |-> 1, winnerAddress |-> 1, week |-> 1, pnl |-> 0]

InitBoard ==
  /\ InitLocals
  /\ InitBrowser
  /\ now = Epoch0
  /\ ticks = 0
  /\ pnlCache = <<>>
  /\ broadcasts = <<>>
  /\ chat = Connected
  /\ calls = 0
  /\ squadWinners \in {EmptyBag, SetToBag({StoredWinner})}
  /\ squadMembers = SetToBag({<<1, u>> : u \in Users})
  /\ squads = ExistingSquads(squadMembers)
  /\ usersTable \in {[i \in Users |-> UserRow(i, a[i])] :
                       a \in [Users -> Addrs \cup {NoAddr}]}
  /\ upstream \in [Addrs -> SmallResponses]

NextBoard ==
  \/ \E s \in SquadIds, q \in Queries :
       pc[1] = "idle" /\ GetLeaderboard(1, s, 1, q)
  \/ \E s \in SquadIds : pc[1] = "idle" /\ CalculateWinner(1, s, 1)
  \/ LbAuth(1)
  \/ LbMembers(1)
  \/ LbUsers(1)
  \/ \E i \in Users : LbSettle(1, i)
  \/ CwAuth(1)
  \/ CwMembers(1)
  \/ CwUsers(1)
  \/ \E i \in Users : CwSettle(1, i)
  \/ CwFind(1)
  \/ CwDelete(1)
  \/ CwInsert(1)

SpecBoard == InitBoard /\ [][NextBoard]_vars

\* Slot p holds a leaderboard request whose build ran to its end.
Built(p) ==
  /\ req[p].kind = "leaderboard"
  /\ pc[p] = "done"
  /\ results[p] # <<>>
BoardOf(p) == res[p][1].leaderboard
\* The place of identity a among the profile rows of slot p.
ProfileIndex(p, a) == CHOOSE i \in 1..Len(users[p]) : users[p][i].evmAddress = a

\* C8: a freshly computed leaderboard is sorted by total PnL, non-increasing,
\* and entries with equal totals keep the order of their profile rows.
C8_SortedStable ==
  \A p \in Procs :
    Built(p) =>
      /\ res[p][1].status = 200
      /\ Len(BoardOf(p)) = Len(users[p])
      /\ \A i, j \in 1..Len(BoardOf(p)) :
           i < j =>
             /\ BoardOf(p)[i].totalLivePnl >= BoardOf(p)[j].totalLivePnl
             /\ BoardOf(p)[i].totalLivePnl = BoardOf(p)[j].totalLivePnl =>
                  ProfileIndex(p, BoardOf(p)[i].evmAddress)
                    < ProfileIndex(p, BoardOf(p)[j].evmAddress)

\* A build whose last profile came first and whose two others tied.
C8_Witness ==
  \E p \in Procs :
    /\ Built(p)
    /\ Len(BoardOf(p)) = 3
    /\ BoardOf(p)[1].evmAddress = 3
    /\ BoardOf(p)[1].totalLivePnl > BoardOf(p)[2].totalLivePnl
    /\ BoardOf(p)[2].totalLivePnl = BoardOf(p)[3].totalLivePnl
    /\ BoardOf(p)[2].evmAddress = 1

\* The total the member's own market data calls for at time t.
OwnTotal(r, tf, t) ==
  (IF r.isArray THEN SumOver(Counted(r, tf, t), r.closed) ELSE 0)
    + (IF tf = "all" THEN OrZero(r.value) ELSE 0)

\* C9: in a leaderboard build a member whose fetch throws or whose closed or
\* value response is not ok gets a total of exactly 0; once every fetch has
\* settled the build has answered 200 with one entry per profile, and every
\* other member's total is the one its own market data calls for.
C9_FailureIsolated ==
  \A p \in Procs :
    (req[p].kind = "leaderboard" /\ results[p] # <<>>) =>
      /\ \A i \in DOMAIN fetched[p] :
           fetched[p][i] # <<>> =>
             IF Failed(fetched[p][i][1])
             THEN TotalOf(p, i) = 0
             ELSE IsRound2(TotalOf(p, i),
                           OwnTotal(fetched[p][i][1], req[p].timeframe, now))
      /\ Settled(results[p]) =>
           /\ pc[p] = "done"
           /\ res[p][1].status = 200
           /\ Len(BoardOf(p)) = Len(users[p])
           /\ \A i \in 1..Len(users[p]) :
                \E k \in 1..Len(BoardOf(p)) :
                  BoardOf(p)[k] = results[p][i][1]

\* A finished build with a member whose value response was not ok although
\* its closed positions arrived, next to a member with a non-zero total.
C9_Witness ==
  \E p \in Procs :
    /\ Built(p)
    /\ \E i, j \in DOMAIN fetched[p] :
         /\ fetched[p][i] = <<ValueNotOkWith(<<Position(<<1234>>, Recent)>>)>>
         /\ TotalOf(p, i) = 0
         /\ fetched[p][j] # <<>>
         /\ TotalOf(p, j) = 1240

\* C10: a member with no trading identity gets an entry with total 0 and no
\* market-data call is issued for it, in the leaderboard handler under every
\* timeframe and in the winner handler; the entry is in the final result.
C10_NoIdentityZero ==
  \A p \in Procs : \A i \in DOMAIN results[p] :
    users[p][i].polymarketUserAddress = NoAddr =>
      /\ results[p][i] = <<Entry(users[p][i], 0)>>
      /\ fetchCount[p][i] = 0
      /\ fetched[p][i] = <<>>
      /\ Built(p) =>
           \E k \in 1..Len(BoardOf(p)) :
             /\ BoardOf(p)[k].evmAddress = users[p][i].evmAddress
             /\ BoardOf(p)[k].totalLivePnl = 0
      /\ (req[p].kind = "winner" /\ pc[p] \notin {"cw_fetch"}
            /\ leaderboard[p] # <<>>) =>
           \E k \in 1..Len(leaderboard[p]) :
             /\ leaderboard[p][k].evmAddress = users[p][i].evmAddress
             /\ leaderboard[p][k].totalLivePnl = 0

\* A winner request that answered 200 for a squad with a member without a
\* trading identity, ranked below a member with market data.
C10_Witness ==
  \E p \in Procs : \E i \in DOMAIN results[p] :
    /\ req[p].kind = "winner"
    /\ pc[p] = "done"
    /\ res[p][1].status = 200
    /\ users[p][i].polymarketUserAddress = NoAddr
    /\ fetchCount[p][i] = 0
    /\ leaderboard[p][1].totalLivePnl > 0
    /\ \E j \in DOMAIN fetchCount[p] : fetchCount[p][j] = 2

\* --------------------------------------------- the winner suites
\* Squad 1 has two members, one with a trading identity whose market data
\* moves between a gain and a loss (so the top entry changes hands); squad 2
\* has one member.  Winner requests only.
Gain == Ok(<<Position(<<1234>>, Recent)>>, <<4>>)
Loss == Ok(<<Position(<<0 - 335>>, Old)>>, <<>>)
WinnerMembers == {<<1, 1>>, <<1, 2>>, <<2, 3>>}
\* The (squad, caller) pairs of the requests: a member of each squad, and a
\* user asking about a squad it is not in.
WinnerCallers == {<<1, 1>>, <<2, 3>>, <<2, 1>>}

InitWinner ==
  /\ InitLocals
  /\ InitBrowser
  /\ InitProcess
  /\ squadMembers = SetToBag(WinnerMembers)
  /\ squads = ExistingSquads(squadMembers)
  /\ usersTable = [i \in Users |-> UserRow(i, IF i = 1 THEN "pA" ELSE NoAddr)]
  /\ upstream \in [Addrs -> {Gain, Loss}]
  /\ upstream["pB"] = Loss

\* No winner request for squad s is in flight.
NoneInFlight(s) ==
  \A p \in Procs :
    req[p].kind = "winner" /\ req[p].squadId = s => pc[p] \in {"idle", "done"}

WinnerSteps ==
  \/ \E p \in Procs : CwAuth(p)
  \/ \E p \in Procs : CwMembers(p)
  \/ \E p \in Procs : CwUsers(p)
  \/ \E p \in Procs, i \in Users : CwSettle(p, i)
  \/ \E p \in Procs : CwFind(p)
  \/ \E p \in Procs : CwDelete(p)
  \/ \E p \in Procs : CwInsert(p)
  \/ \E r \in {Gain, Loss} : MarketMoves("pA", r)

\* Requests may overlap freely.
NextWinner ==
  \/ \E p \in Procs, m \in WinnerCallers : CalculateWinner(p, m[1], m[2])
  \/ WinnerSteps

SpecWinner == InitWinner /\ [][NextWinner]_vars

\* Requests for the same squad never overlap; the weeks go by.
NextSeq ==
  \/ \E p \in Procs, m \in WinnerCallers :
       NoneInFlight(m[1]) /\ CalculateWinner(p, m[1], m[2])
  \/ WinnerSteps
  \/ Tick(WeekSeconds)

SpecSeq == InitWinner /\ [][NextSeq]_vars

Inserts(p) ==
  /\ pc[p] = "cw_insert"
  /\ pc'[p] = "done"
  /\ res'[p][1].status = 200

\* C2: the winner handler's insert never replaces: a successful insert adds
\* a row to whatever (squad, week) already holds and is followed by an
\* announcement, so two requests whose lookups both ran before either insert
\* leave two rows for the (squad, week) and announce twice.
C2_InsertsAddUp ==
  [][\A p \in Procs :
       Inserts(p) =>
         /\ WinnerCount(req[p].squadId, week[p])' =
              WinnerCount(req[p].squadId, week[p]) + 1
         /\ existingWinner[p] = <<>> =>
              squadWinners' = squadWinners
                (+) SetToBag({WinnerRow(req[p].squadId, leaderboard[p][1], week[p])})
         /\ emitted'[p] = 1
         /\ Len(broadcasts') = Len(broadcasts) + 1]_vars

\* Two requests for squad 1, week 1, neither of which saw a row, have both
\* inserted and both announced: the week has two rows.
C2_Witness ==
  \E p, q \in Procs :
    /\ p # q
    /\ \A x \in {p, q} :
         /\ req[x].kind = "winner" /\ req[x].squadId = 1 /\ week[x] = 1
         /\ pc[x] = "done" /\ res[x][1].status = 200
         /\ existingWinner[x] = <<>>
         /\ emitted[x] = 1
    /\ WinnerCount(1, 1) = 2
    /\ Cardinality(Announced(1, 1)) = 2

C4_OncePerWeek ==
  \A k \in 1..Len(broadcasts) :
    Cardinality(Announced(broadcasts[k].squadId, broadcasts[k].week)) = 1

\* C4, amended: the announcement is made exactly once per successful winner
\* request: a step appends an announcement iff a request's insert succeeds
\* in it, and the announcement is that request's; repeat requests in a week
\* announce again.
C4_OncePerSuccess ==
  [][/\ \A p \in Procs :
          Inserts(p) =>
            /\ broadcasts' =
                 Append(broadcasts,
                        Announcement(req[p].squadId, leaderboard[p][1], week[p]))
            /\ emitted[p] = 0 /\ emitted'[p] = 1
     /\ broadcasts' # broadcasts => \E p \in Procs : Inserts(p)
     /\ \A p \in Procs :
          (pc[p] = "cw_insert" /\ pc'[p] = "done" /\ res'[p][1].status # 200)
            => emitted'[p] = 0]_vars

\* Two successful requests of one week, one after the other: two
\* announcements, one row.
C4_Witness ==
  /\ Cardinality(Announced(1, 1)) = 2
  /\ WinnerCount(1, 1) = 1
  /\ \E p, q \in Procs :
       /\ p # q
       /\ \A x \in {p, q} :
            /\ req[x].kind = "winner" /\ req[x].squadId = 1 /\ week[x] = 1
            /\ pc[x] = "done" /\ res[x][1].status = 200
       /\ existingWinner[q] # <<>>

\* ------------------------------------------------ the cache suite (SpecCache)
\* Leaderboard requests only, overlapping freely, for squad 1 and the `all`
\* timeframe (asked for by name or by default); the clock moves by a second
\* or by the time to live and the market data of the one trading member moves.
CacheQueries == {"", "all"}

InitCache ==
  /\ InitLocals
  /\ InitBrowser
  /\ InitProcess
  /\ squadMembers = SetToBag({<<1, 1>>, <<1, 2>>})
  /\ squads = ExistingSquads(squadMembers)
  /\ usersTable = [i \in Users |-> UserRow(i, IF i = 1 THEN "pA" ELSE NoAddr)]
  /\ upstream = [a \in Addrs |-> Gain]

NextCache ==
  \/ \E p \in Procs, u \in {1, NumUsers}, q \in CacheQueries :
       GetLeaderboard(p, 1, u, q)
  \/ \E p \in Procs : LbAuth(p)
  \/ \E p \in Procs : LbMembers(p)
  \/ \E p \in Procs : LbUsers(p)
  \/ \E p \in Procs, i \in Users : LbSettle(p, i)
  \/ \E r \in {Gain, Loss} : MarketMoves("pA", r)
  \/ \E d \in {1, stdTTL} : Tick(d)

SpecCache == InitCache /\ [][NextCache]_vars

KeyOf(p) == LeaderboardKey(req[p].squadId, req[p].timeframe)
\* The membership lookup of slot p resolves in this step, for a member.
MemberPasses(p) ==
  /\ pc[p] = "gl_auth"
  /\ pc'[p] # "gl_auth"
  /\ ~(pc'[p] = "done" /\ res'[p][1].status = 403)
\* The build of slot p ends in this step.
BuildEnds(p) ==
  /\ pc[p] \in {"gl_users", "gl_fetch"}
  /\ pc'[p] = "done"
  /\ res'[p][1].status = 200

\* C5: a member's leaderboard request that reaches the cache no more than 30
\* seconds after the last write for its key answers with exactly the value
\* written and makes no market-data call; one that reaches it later (or finds
\* nothing) misses and goes on to a build, which fetches each trading member
\* exactly once and writes its result back under the same key.
C5_CacheWindow ==
  [][\A p \in Procs :
       /\ MemberPasses(p) =>
            IF KeyOf(p) \in DOMAIN pnlCache
                 /\ now <= pnlCache[KeyOf(p)].t + stdTTL
            THEN /\ pc'[p] = "done"
                 /\ res'[p] = <<JsonLeaderboard(pnlCache[KeyOf(p)].v)>>
                 /\ fetchCount'[p] = <<>>
                 /\ fetched'[p] = <<>>
                 /\ pnlCache' = pnlCache
            ELSE /\ pc'[p] = "gl_members"
                 /\ res'[p] = <<>>
                 /\ KeyOf(p) \notin DOMAIN pnlCache'
       /\ BuildEnds(p) =>
            /\ KeyOf(p) \in DOMAIN pnlCache'
            /\ pnlCache'[KeyOf(p)] = [v |-> res'[p][1].leaderboard, t |-> now]
            /\ \A i \in 1..Len(users[p]) :
                 IF users[p][i].polymarketUserAddress = NoAddr
                 THEN fetchCount'[p][i] = 0 /\ fetched'[p][i] = <<>>
                 ELSE fetchCount'[p][i] = 2 /\ fetched'[p][i] # <<>>]_vars

\* One request has built and cached a leaderboard; another has been served
\* it from the cache on the last second of its life, after the market moved.
C5_Witness ==
  \E p, q \in Procs :
    /\ Built(p)
    /\ req[q].kind = "leaderboard" /\ pc[q] = "done" /\ results[q] = <<>>
    /\ res[q][1].status = 200
    /\ KeyOf(q) = KeyOf(p)
    /\ KeyOf(p) \in DOMAIN pnlCache
    /\ pnlCache[KeyOf(p)].t + stdTTL = now
    /\ res[q][1].leaderboard = pnlCache[KeyOf(p)].v
    /\ res[q][1].leaderboard = BoardOf(p)
    /\ upstream["pA"] = Loss
    /\ BoardOf(p)[1].totalLivePnl = 1240

\* ------------------------------------------------- the mixed suite (SpecMix)
\* Both handlers, overlapping freely, over the squads of the winner suites:
\* leaderboard requests for the `all` timeframe on slot 1 and winner requests
\* on the other slots, by a member of each squad and by a user asking about a
\* squad it is not in.

InitMix ==
  /\ InitLocals
  /\ InitBrowser
  /\ InitProcess
  /\ squadMembers = SetToBag(WinnerMembers)
  /\ squads = ExistingSquads(squadMembers)
  /\ usersTable = [i \in Users |-> UserRow(i, IF i = 1 THEN "pA" ELSE NoAddr)]
  /\ upstream = [a \in Addrs |-> Gain]

NextMix ==
  \/ \E m \in WinnerCallers : GetLeaderboard(1, m[1], m[2], "all")
  \/ \E p \in Procs \ {1}, m \in WinnerCallers :
       CalculateWinner(p, m[1], m[2])
  \/ \E p \in Procs : LbAuth(p)
  \/ \E p \in Procs : LbMembers(p)
  \/ \E p \in Procs : LbUsers(p)
  \/ \E p \in Procs, i \in Users : LbSettle(p, i)
  \/ \E p \in Procs : CwAuth(p)
  \/ \E p \in Procs : CwMembers(p)
  \/ \E p \in Procs : CwUsers(p)
  \/ \E p \in Procs, i \in Users : CwSettle(p, i)
  \/ \E p \in Procs : CwFind(p)
  \/ \E p \in Procs : CwDelete(p)
  \/ \E p \in Procs : CwInsert(p)

SpecMix == InitMix /\ [][NextMix]_vars

\* Slot p takes a step of its handler.
Steps(p) == pc'[p] # pc[p]
\* The request slot p holds after the step is by a user outside its squad.
Outsider(p) == ~BagIn(<<req'[p].squadId, req'[p].userId>>, squadMembers)
\* A live entry of the cache for squad s.
FreshFor(s) ==
  \E k \in DOMAIN pnlCache :
    k = LeaderboardKey(s, "all") /\ ~Expired(pnlCache[k], now)

\* C11: a caller who is not a member of the squad gets 403 from both
\* handlers and no data, whatever the cache holds: the membership lookup is
\* the first thing to resolve, and no step of a denied request touches the
\* cache or the winner store, announces, or starts a lookup or a fetch.
C11_DeniedFirst ==
  [][\A p \in Procs :
       (Steps(p) /\ Outsider(p)) =>
         /\ pc'[p] \in {"gl_auth", "cw_auth", "done"}
         /\ pc[p] \in {"gl_auth", "cw_auth"} =>
              /\ pc'[p] = "done"
              /\ res'[p] = <<JsonError(403, "You are not a member of this squad")>>
         /\ pc'[p] \in {"gl_auth", "cw_auth"} => res'[p] = <<>>
         /\ pnlCache' = pnlCache
         /\ squadWinners' = squadWinners
         /\ broadcasts' = broadcasts
         /\ emitted'[p] = 0
         /\ users'[p] = <<>> /\ fetchCount'[p] = <<>> /\ leaderboard'[p] = <<>>]_vars

\* An outsider has been denied by each handler while the cache held a live
\* leaderboard of squad 1 and another of the very squad asked about.
C11_Witness ==
  \E p, q \in Procs :
    /\ req[p].kind = "leaderboard" /\ req[q].kind = "winner"
    /\ \A x \in {p, q} :
         /\ ~BagIn(<<req[x].squadId, req[x].userId>>, squadMembers)
         /\ pc[x] = "done"
         /\ res[x] = <<JsonError(403, "You are not a member of this squad")>>
         /\ FreshFor(req[x].squadId)
    /\ FreshFor(1)

\* C12: the winner handler announces only after its insert has succeeded:
\* whenever an announcement is made, the same step has added the announced
\* winner's row to the store; when the insert fails the request ends with
\* the 500 error, carries no winner summary and has announced nothing.
C12_AnnounceAfterInsert ==
  [][/\ broadcasts' # broadcasts =>
          \E p \in {q \in Procs : pc[q] = "cw_insert"} :
            LET row == WinnerRow(req[p].squadId, leaderboard[p][1], week[p])
                said == broadcasts'[Len(broadcasts')]
            IN /\ pc'[p] = "done"
               /\ Len(broadcasts') = Len(broadcasts) + 1
               /\ CopiesIn(row, squadWinners') = CopiesIn(row, squadWinners) + 1
               /\ said.squadId = row.squadId /\ said.week = row.week
               /\ said.amount = Abs(row.pnl)
               /\ res'[p][1].status = 200
     /\ \A p \in Procs :
          (pc[p] = "cw_insert" /\ pc'[p] = "done"
             /\ squadWinners' = squadWinners) =>
            /\ res'[p] = <<JsonError(500, "Failed to save winner")>>
            /\ res'[p][1].winner = <<>>
            /\ broadcasts' = broadcasts
            /\ emitted'[p] = 0]_vars

\* A request whose insert failed: a 500, nothing stored for its week, nothing
\* announced, although the request had a winner in hand.
C12_Witness ==
  \E p \in Procs :
    /\ req[p].kind = "winner" /\ pc[p] = "done"
    /\ res[p] = <<JsonError(500, "Failed to save winner")>>
    /\ leaderboard[p] # <<>> /\ leaderboard[p][1].totalLivePnl = 1240
    /\ WinnerCount(req[p].squadId, week[p]) = 0
    /\ broadcasts = <<>>
    /\ emitted[p] = 0

\* ---------------------------------------------------- the edge suite (SpecEdge)
\* Requests about squad 2 by its only member: leaderboard requests on slot 1,
\* winner requests on every slot.  The member's profile row may be missing
\* from the users table, and its squad_members row may be removed while a
\* request is in flight, so that a request which passed the membership check
\* finds no member or no profile.
EdgeRows == [i \in Users |-> UserRow(i, IF i = 3 THEN "pB" ELSE NoAddr)]

InitEdge ==
  /\ InitLocals
  /\ InitBrowser
  /\ InitProcess
  /\ squadMembers = SetToBag(WinnerMembers)
  /\ squads = ExistingSquads(squadMembers)
  /\ usersTable \in {EdgeRows, SelectSeq(EdgeRows, LAMBDA r : r.evmAddress # 3)}
  /\ upstream = [a \in Addrs |-> Gain]

NextEdge ==
  \/ \E q \in {"all", "weekly"} : GetLeaderboard(1, 2, 3, q)
  \/ \E p \in Procs : CalculateWinner(p, 2, 3)
  \/ \E p \in Procs : LbAuth(p)
  \/ \E p \in Procs : LbMembers(p)
  \/ \E p \in Procs : LbUsers(p)
  \/ \E p \in Procs, i \in Users : LbSettle(p, i)
  \/ \E p \in Procs : CwAuth(p)
  \/ \E p \in Procs : CwMembers(p)
  \/ \E p \in Procs : CwUsers(p)
  \/ \E p \in Procs, i \in Users : CwSettle(p, i)
  \/ \E p \in Procs : CwFind(p)
  \/ \E p \in Procs : CwDelete(p)
  \/ \E p \in Procs : CwInsert(p)
  \/ MemberRemoved(<<2, 3>>)

SpecEdge == InitEdge /\ [][NextEdge]_vars

NoMembers == JsonError(400, "No members in squad")
NoData == JsonError(400, "No leaderboard data available")
\* The step leaves the winner store, the announcements and the cache alone.
StoresUntouched ==
  /\ squadWinners' = squadWinners
  /\ broadcasts' = broadcasts
  /\ pnlCache' = pnlCache

\* C13: a winner request that finds no member row for the squad, or whose
\* profile lookup returns no row (so that the leaderboard is empty), answers
\* 400 in that step and does nothing more: a request answered 400 has made
\* no winner lookup, delete or insert and no announcement.
C13_ClientErrorStops ==
  [][\A p \in Procs :
       /\ (pc[p] = "cw_members" /\ Steps(p)
             /\ {m \in BagToSet(squadMembers) : m[1] = req[p].squadId} = {}) =>
            /\ pc'[p] = "done" /\ res'[p] = <<NoMembers>>
            /\ users'[p] = <<>> /\ fetchCount'[p] = <<>>
       /\ (pc[p] = "cw_users" /\ Steps(p)
             /\ res'[p] # <<JsonError(500, "Failed to fetch users")>>
             /\ \A i \in 1..Len(usersTable) :
                  usersTable[i].evmAddress \notin userIds[p]) =>
            /\ pc'[p] = "done" /\ res'[p] = <<NoData>>
       /\ (Steps(p) /\ pc'[p] = "done" /\ res'[p] \in {<<NoMembers>>, <<NoData>>}) =>
            /\ pc[p] \in {"cw_members", "cw_users", "cw_fetch"}
            /\ week'[p] = 0
            /\ existingWinner'[p] = <<>>
            /\ emitted'[p] = 0
            /\ StoresUntouched]_vars

\* One winner request found the squad's member row gone, another found no
\* profile for the member; both were answered 400 and the store and the
\* chat are as they were.
C13_Witness ==
  \E p, q \in Procs :
    /\ req[p].kind = "winner" /\ req[q].kind = "winner"
    /\ pc[p] = "done" /\ res[p] = <<NoMembers>>
    /\ pc[q] = "done" /\ res[q] = <<NoData>>
    /\ userIds[q] # {} /\ users[q] = <<>>
    /\ {m \in BagToSet(squadMembers) : m[1] = req[p].squadId} = {}
    /\ squadWinners = EmptyBag
    /\ broadcasts = <<>>

\* C14: a member's leaderboard request that missed the cache and finds no
\* member row for the squad answers 200 with an empty leaderboard in that
\* step: no error, no profile lookup, no market-data call, no cache write.
C14_EmptySquadEmptyBoard ==
  [][\A p \in Procs :
       (pc[p] = "gl_members" /\ Steps(p)
          /\ {m \in BagToSet(squadMembers) : m[1] = req[p].squadId} = {}) =>
         /\ pc'[p] = "done"
         /\ res'[p] = <<JsonLeaderboard(<<>>)>>
         /\ res'[p][1].status = 200
         /\ users'[p] = <<>> /\ results'[p] = <<>>
         /\ fetchCount'[p] = <<>> /\ fetched'[p] = <<>>
         /\ pnlCache' = pnlCache]_vars

\* A member passed the membership check and missed the cache, its row was
\* removed, and the request was answered with an empty leaderboard.
C14_Witness ==
  \E p \in Procs :
    /\ req[p].kind = "leaderboard" /\ pc[p] = "done"
    /\ {m \in BagToSet(squadMembers) : m[1] = req[p].squadId} = {}
    /\ res[p] = <<JsonLeaderboard(<<>>)>>
    /\ users[p] = <<>> /\ fetchCount[p] = <<>>
    /\ LeaderboardKey(req[p].squadId, req[p].timeframe) \notin DOMAIN pnlCache

\* Slot p holds a winner request that was answered with a winner.
Won(p) ==
  /\ req[p].kind = "winner"
  /\ pc[p] = "done"
  /\ res[p][1].status = 200

\* C15: the winner a request returns and stores is the top of the all-time
\* ranking: each member's total is 0 without a trading identity or after a
\* failed fetch, else the nearest cent of all its closed positions' realized
\* PnL plus its open value; the winner's total is >= every member's, and of
\* the members with that total the winner is the first in profile order.
C15_WinnerIsTop ==
  \A p \in Procs :
    Won(p) =>
      LET w == res[p][1].winner[1]
          iw == ProfileIndex(p, w.evmAddress)
      IN /\ w.pnl = TotalOf(p, iw)
         /\ w.username = DisplayName(users[p][iw])
         /\ CopiesIn([squadId |-> req[p].squadId, winnerAddress |-> w.evmAddress,
                      week |-> w.week, pnl |-> w.pnl], squadWinners) >= 1
         /\ \A i \in 1..Len(users[p]) :
              /\ IF fetched[p][i] = <<>> \/ Failed(fetched[p][i][1])
                 THEN TotalOf(p, i) = 0
                 ELSE IsRound2(TotalOf(p, i),
                               OwnTotal(fetched[p][i][1], "all", now))
              /\ users[p][i].polymarketUserAddress # NoAddr => fetched[p][i] # <<>>
              /\ TotalOf(p, i) <= w.pnl
              /\ TotalOf(p, i) = w.pnl => iw <= i

\* The first two profiles tie at the top with a total that counts the open
\* value, the third has a position older than a week; the first profile won.
C15_Witness ==
  \E p \in Procs :
    /\ Won(p)
    /\ Len(users[p]) = 3
    /\ res[p][1].winner[1].evmAddress = users[p][1].evmAddress
    /\ res[p][1].winner[1].pnl = 1240
    /\ TotalOf(p, 2) = 1240
    /\ TotalOf(p, 3) = 0 - 340
    /\ users[p][1].polymarketUserAddress = users[p][2].polymarketUserAddress

\* ----------------------------------------------------- the week suite (SpecWeek)
\* Winner requests by a member of squad 1, one at a time, started at the
\* first or the last second of any day of the years 2026 to 2029 (2028 is a
\* leap year).
DaysModelled == 3 * 365 + 366

InitWeek ==
  /\ InitLocals
  /\ InitBrowser
  /\ now \in {Epoch0 + d * DaySeconds + s :
                d \in 0..(DaysModelled - 1), s \in {0, DaySeconds - 1}}
  /\ ticks = 0
  /\ pnlCache = <<>>
  /\ squadWinners = EmptyBag
  /\ broadcasts = <<>>
  /\ chat = Connected
  /\ calls = 0
  /\ squadMembers = SetToBag(WinnerMembers)
  /\ squads = ExistingSquads(squadMembers)
  /\ usersTable = [i \in Users |-> UserRow(i, IF i = 1 THEN "pA" ELSE NoAddr)]
  /\ upstream = [a \in Addrs |-> Gain]

NextWeek ==
  \/ CalculateWinner(1, 1, 1)
  \/ CwAuth(1)
  \/ CwMembers(1)
  \/ CwUsers(1)
  \/ \E i \in Users : CwSettle(1, i)
  \/ CwFind(1)
  \/ CwDelete(1)
  \/ CwInsert(1)

SpecWeek == InitWeek /\ [][NextWeek]_vars

\* C16 as stated: the week number a winner request computes lies in 1..52 on
\* every day of every year, 30 and 31 December and leap years included.
C16_WeekInRange ==
  \A p \in Procs :
    (req[p].kind = "winner" /\ pc[p] \in {"cw_find", "cw_delete", "cw_insert"})
      => week[p] \in 1..52

\* Slot p's leaderboard request reads the cache in this step (the caller is
\* a member).
ReadsCache(p) ==
  /\ pc[p] = "gl_auth"
  /\ Steps(p)
  /\ res'[p] # <<JsonError(403, "You are not a member of this squad")>>

\* C17: a value served from the cache is the one stored under the key and
\* was written at most 30 seconds earlier; a read more than 30 seconds after
\* the write misses; a build's write stores its result with the current time
\* whatever the key held; and an entry changes only by such a write and
\* disappears only by a read that finds it expired.
C17_CacheEntries ==
  [][/\ \A p \in Procs :
          /\ (ReadsCache(p) /\ pc'[p] = "done") =>
               /\ KeyOf(p) \in DOMAIN pnlCache
               /\ res'[p] = <<JsonLeaderboard(pnlCache[KeyOf(p)].v)>>
               /\ now - pnlCache[KeyOf(p)].t <= stdTTL
          /\ (ReadsCache(p) /\ KeyOf(p) \in DOMAIN pnlCache
                /\ now - pnlCache[KeyOf(p)].t > stdTTL) =>
               pc'[p] = "gl_members"
          /\ BuildEnds(p) =>
               /\ DOMAIN pnlCache' = DOMAIN pnlCache \cup {KeyOf(p)}
               /\ pnlCache'[KeyOf(p)] = [v |-> res'[p][1].leaderboard, t |-> now]
     /\ \A k \in DOMAIN pnlCache \cup DOMAIN pnlCache' :
          \/ k \in DOMAIN pnlCache /\ k \in DOMAIN pnlCache'
               /\ pnlCache'[k] = pnlCache[k]
          \/ \E p \in Procs : BuildEnds(p) /\ KeyOf(p) = k
          \/ /\ k \in DOMAIN pnlCache /\ k \notin DOMAIN pnlCache'
             /\ now - pnlCache[k].t > stdTTL
             /\ \E p \in Procs : ReadsCache(p) /\ KeyOf(p) = k]_vars

\* Two builds of one key with different results: the second one's write, a
\* second after the model's start, replaced the first one's live entry and
\* restarted its clock.
C17_Witness ==
  \E p, q \in Procs :
    /\ Built(p) /\ Built(q)
    /\ KeyOf(p) = KeyOf(q)
    /\ BoardOf(p) # BoardOf(q)
    /\ now = Epoch0 + 1
    /\ KeyOf(q) \in DOMAIN pnlCache
    /\ pnlCache[KeyOf(q)] = [v |-> BoardOf(q), t |-> now]

\* ------------------------------------------------ the window suite (SpecWindow)
\* Overlapping leaderboard requests by a member of squad 1 for the `weekly`
\* timeframe, while the clock moves by a second.  The trading
\* member holds a closed position stamped exactly a week before the model's
\* start, or its market data is the winner suites' gain.
OnTheEdge == Ok(<<Position(<<1234>>, <<Epoch0 - WeekSeconds>>)>>, <<4>>)

InitWindow ==
  /\ InitLocals
  /\ InitBrowser
  /\ InitProcess
  /\ squadMembers = SetToBag({<<1, 1>>, <<1, 2>>})
  /\ squads = ExistingSquads(squadMembers)
  /\ usersTable = [i \in Users |-> UserRow(i, IF i = 1 THEN "pA" ELSE NoAddr)]
  /\ upstream = [a \in Addrs |-> OnTheEdge]

NextWindow ==
  \/ \E p \in Procs : GetLeaderboard(p, 1, 1, "weekly")
  \/ \E p \in Procs : LbAuth(p)
  \/ \E p \in Procs : LbMembers(p)
  \/ \E p \in Procs : LbUsers(p)
  \/ \E p \in Procs, i \in Users : LbSettle(p, i)
  \/ \E r \in {OnTheEdge, Gain} : MarketMoves("pA", r)
  \/ Tick(1)

SpecWindow == InitWindow /\ [][NextWindow]_vars

\* The key of slot p holds no live entry.
NothingLive(p) ==
  \/ KeyOf(p) \notin DOMAIN pnlCache
  \/ now - pnlCache[KeyOf(p)].t > stdTTL

\* C18 as stated: a request that finds no live entry builds, also while
\* another build of the key is in flight; and two finished builds of one
\* (squad, timeframe) that received the same market data returned the same
\* leaderboard, which is what the cache holds after the later one's write.
C18_SameDataSameBoard ==
  [][\A p \in Procs :
       /\ (ReadsCache(p) /\ NothingLive(p)) => pc'[p] = "gl_members"
       /\ BuildEnds(p) =>
            \A q \in Procs \ {p} :
              (Built(q) /\ KeyOf(q) = KeyOf(p) /\ users[q] = users'[p]
                 /\ fetched[q] = fetched'[p]) =>
                /\ res'[p] = res[q]
                /\ pnlCache'[KeyOf(p)].v = BoardOf(q)]_vars

\* C18, amended: the same, for two builds that also computed the same cutoff
\* (always so for `all`; for `weekly` and `daily` when the clock did not move
\* between the two cutoff computations).
C18_BothRecompute ==
  [][\A p \in Procs :
       /\ (ReadsCache(p) /\ NothingLive(p)) => pc'[p] = "gl_members"
       /\ BuildEnds(p) =>
            \A q \in Procs \ {p} :
              (Built(q) /\ KeyOf(q) = KeyOf(p) /\ users[q] = users'[p]
                 /\ fetched[q] = fetched'[p]
                 /\ startTimestamp[q] = startTimestamp'[p]) =>
                /\ res'[p] = res[q]
                /\ pnlCache'[KeyOf(p)].v = BoardOf(q)]_vars

\* Two weekly requests overlapped (no time passed and both built) and the
\* market did not move: both returned the leaderboard the cache holds, which
\* counts the position on the edge of the window.
C18_Witness ==
  \E p, q \in Procs :
    /\ p # q
    /\ Built(p) /\ Built(q)
    /\ KeyOf(p) = KeyOf(q) /\ req[p].timeframe = "weekly"
    /\ ticks = 0
    /\ fetched[p] = fetched[q] /\ fetched[p][1] = <<OnTheEdge>>
    /\ fetchCount[p][1] = 2 /\ fetchCount[q][1] = 2
    /\ BoardOf(p) = BoardOf(q)
    /\ BoardOf(p)[1].totalLivePnl = 1230
    /\ pnlCache[KeyOf(p)].v = BoardOf(p)

\* The place profile i of slot p takes in the ranking: behind every profile
\* with a larger total and every earlier profile with the same total.
RankOf(p, i) ==
  1 + Cardinality({j \in 1..Len(users[p]) :
                     \/ TotalOf(p, j) > TotalOf(p, i)
                     \/ TotalOf(p, j) = TotalOf(p, i) /\ j < i})

\* C19: a leaderboard build answers and writes the cache only once every
\* profile's fetch has settled; until then there is no response and no cache
\* entry of the build.  The leaderboard is then fixed by the profiles'
\* order and totals alone: each profile's entry stands at its rank, in
\* whatever order the fetches completed and whichever of them failed.
C19_OrderAfterAllSettle ==
  \A p \in Procs :
    req[p].kind = "leaderboard" =>
      /\ pc[p] = "gl_fetch" =>
           /\ res[p] = <<>>
           /\ ~Settled(results[p])
           /\ \A k \in DOMAIN pnlCache :
                k = KeyOf(p) => \E q \in Procs \ {p} : Built(q) /\ KeyOf(q) = k
      /\ Built(p) =>
           /\ Settled(results[p])
           /\ Len(BoardOf(p)) = Len(users[p])
           /\ \A i \in 1..Len(users[p]) :
                BoardOf(p)[RankOf(p, i)] = results[p][i][1]
           /\ KeyOf(p) \in DOMAIN pnlCache
           /\ pnlCache[KeyOf(p)].v = BoardOf(p)

\* A finished build over three trading members of which the last failed:
\* the failed one leads at its zero total, the two losing ones follow in
\* profile order, and the cache holds this leaderboard.
C19_Witness ==
  \E p \in Procs :
    /\ Built(p)
    /\ Len(users[p]) = 3
    /\ \A i \in 1..3 : fetchCount[p][i] = 2
    /\ Failed(fetched[p][3][1])
    /\ RankOf(p, 3) = 1 /\ RankOf(p, 1) = 2 /\ RankOf(p, 2) = 3
    /\ BoardOf(p)[1].evmAddress = 3
    /\ BoardOf(p)[3].totalLivePnl < 0
    /\ pnlCache[KeyOf(p)].v = BoardOf(p)

\* C20 as stated: a winner request by a member that reads the cache while
\* a leaderboard handler's all-time leaderboard of the squad is live takes
\* the winner from that leaderboard and makes no market-data call.
C20_ReusesCachedBoard ==
  [][\A p \in Procs :
       LET k == LeaderboardKey(req[p].squadId, "all")
       IN (pc[p] = "cw_auth" /\ Steps(p)
             /\ res'[p] # <<JsonError(403, "You are not a member of this squad")>>
             /\ k \in DOMAIN pnlCache
             /\ now - pnlCache[k].t <= stdTTL) =>
            /\ leaderboard'[p] = pnlCache[k].v
            /\ pc'[p] = "cw_find"
            /\ fetchCount'[p] = <<>>]_vars

\* ------------------------------------------------------ the key suite (SpecKeys)
\* User 1 is in squads 1 and 12.  Leaderboard requests on slot 1, for either
\* squad and a timeframe that is missing or a string of the caller's choosing;
\* winner requests on the other slots.
KeySquads == {1, 12}
KeyQueries == {"", "2"}

InitKeys ==
  /\ InitLocals
  /\ InitBrowser
  /\ InitProcess
  /\ squadMembers = SetToBag({<<s, 1>> : s \in KeySquads})
  /\ squads = ExistingSquads(squadMembers)
  /\ usersTable = [i \in Users |-> UserRow(i, IF i = 1 THEN "pA" ELSE NoAddr)]
  /\ upstream = [a \in Addrs |-> Gain]

NextKeys ==
  \/ \E s \in KeySquads, q \in KeyQueries : GetLeaderboard(1, s, 1, q)
  \/ \E p \in Procs \ {1}, s \in KeySquads : CalculateWinner(p, s, 1)
  \/ \E p \in Procs : LbAuth(p)
  \/ \E p \in Procs : LbMembers(p)
  \/ \E p \in Procs : LbUsers(p)
  \/ \E p \in Procs, i \in Users : LbSettle(p, i)
  \/ \E p \in Procs : CwAuth(p)
  \/ \E p \in Procs : CwMembers(p)
  \/ \E p \in Procs : CwUsers(p)
  \/ \E p \in Procs, i \in Users : CwSettle(p, i)
  \/ \E p \in Procs : CwFind(p)
  \/ \E p \in Procs : CwDelete(p)
  \/ \E p \in Procs : CwInsert(p)

SpecKeys == InitKeys /\ [][NextKeys]_vars

\* C21: whatever the leaderboard handler has cached, for whichever squad and
\* timeframe string, the winner handler's cache lookup returns nothing: a
\* member's winner request always goes on to load the members, with no
\* leaderboard in hand and the cache as it was.
C21_DisjointKeys ==
  [][\A p \in Procs :
       (pc[p] = "cw_auth" /\ Steps(p)
          /\ res'[p] # <<JsonError(403, "You are not a member of this squad")>>) =>
         /\ pc'[p] = "cw_members"
         /\ leaderboard'[p] = <<>>
         /\ pnlCache' = pnlCache]_vars

\* A winner request for squad 12 has missed the cache while it held the
\* leaderboard handler's entries `leaderboard:1:2` and `leaderboard:12:all`.
C21_Witness ==
  \E p \in Procs :
    /\ req[p].kind = "winner" /\ req[p].squadId = 12
    /\ pc[p] = "cw_members"
    /\ {"leaderboard:1:2", "leaderboard:12:all"} \subseteq DOMAIN pnlCache
    /\ \A k \in DOMAIN pnlCache : ~Expired(pnlCache[k], now)

\* The entry of the cache under key k, <<>> when there is none.
EntryAt(cache, k) == IF k \in DOMAIN cache THEN <<cache[k]>> ELSE <<>>

\* C22: no step of a leaderboard request touches the winner store (it is
\* neither read nor written), the announcements, the squad_members rows or
\* the users rows; of the cache it changes at most the entry under
\* `leaderboard:<its squad>:<its timeframe>`.
C22_LeaderboardFrame ==
  [][\A p \in Procs :
       (Steps(p) /\ req'[p].kind = "leaderboard") =>
         /\ squadWinners' = squadWinners
         /\ broadcasts' = broadcasts
         /\ squadMembers' = squadMembers
         /\ usersTable' = usersTable
         /\ existingWinner'[p] = <<>> /\ week'[p] = 0 /\ emitted'[p] = 0
         /\ \A k \in DOMAIN pnlCache \cup DOMAIN pnlCache' :
              k # "leaderboard:" \o ToString(req'[p].squadId) \o ":"
                    \o req'[p].timeframe
                => EntryAt(pnlCache', k) = EntryAt(pnlCache, k)]_vars

\* A leaderboard request for squad 2 has built and cached its result while
\* squad 1 had a stored, announced winner and its own cached leaderboard:
\* all of that is as it was.
C22_Witness ==
  \E p \in Procs :
    /\ Built(p) /\ req[p].squadId = 2
    /\ "leaderboard:2:all" \in DOMAIN pnlCache
    /\ pnlCache["leaderboard:2:all"].v = BoardOf(p)
    /\ "leaderboard:1:all" \in DOMAIN pnlCache
    /\ WinnerCount(1, 1) = 1
    /\ Len(broadcasts) = 1
    /\ squadMembers = SetToBag(WinnerMembers)

\* ---------------------------------------------------- the chat suite (SpecChat)
\* The winner suite with the bot's socket going down and up and losing what
\* it buffered.
NextChat ==
  \/ \E p \in Procs, m \in WinnerCallers : CalculateWinner(p, m[1], m[2])
  \/ \E p \in Procs : CwAuth(p)
  \/ \E p \in Procs : CwMembers(p)
  \/ \E p \in Procs : CwUsers(p)
  \/ \E p \in Procs, i \in Users : CwSettle(p, i)
  \/ \E p \in Procs : CwFind(p)
  \/ \E p \in Procs : CwDelete(p)
  \/ \E p \in Procs : CwInsert(p)
  \/ ChatDisconnects
  \/ ChatReconnects
  \/ ChatLoses

SpecChat == InitWinner /\ [][NextChat]_vars

\* C23: when a winner request's insert succeeds, the request answers in
\* the same step with the summary of the row it inserted (identity, display
\* name, PnL, week), whether the socket is connected or not; and whatever
\* then becomes of the announcement, no response and no row changes.
C23_SummaryWhateverTheChat ==
  [][/\ \A p \in {q \in Procs : pc[q] = "cw_insert"} :
          (Steps(p) /\ squadWinners' # squadWinners) =>
            LET w == leaderboard[p][1]
                row == [squadId |-> req[p].squadId, winnerAddress |-> w.evmAddress,
                        week |-> week[p], pnl |-> w.totalLivePnl]
            IN /\ squadWinners' = squadWinners (+) SetToBag({row})
               /\ res'[p][1].status = 200
               /\ res'[p][1].winner =
                    <<[evmAddress |-> row.winnerAddress,
                       username |-> w.username,
                       pnl |-> row.pnl, week |-> row.week]>>
     /\ (chat' # chat /\ broadcasts' = broadcasts) =>
          /\ res' = res
          /\ squadWinners' = squadWinners
          /\ pc' = pc]_vars

\* A request was answered with its winner while the socket was down; the
\* announcement was buffered and then lost, and the row is in the store.
C23_Witness ==
  \E p \in Procs :
    /\ Won(p)
    /\ Len(broadcasts) = 1
    /\ chat = [up |-> FALSE, delivered |-> 0, buffered |-> 0]
    /\ WinnersOf(req[p].squadId, week[p]) =
         SetToBag({WinnerRow(req[p].squadId, leaderboard[p][1], week[p])})
    /\ res[p] = <<JsonWinner(leaderboard[p][1], week[p])>>
\* ------------------------------------------------- the membership suite
\* A squad one short of full, two users who are not in it yet and one who
\* is; joins overlap on every slot, with creations on the first.
Founders == 1..(MaxMembers - 1)
Newcomers == {MaxMembers, MaxMembers + 1}
JoinCallers == Newcomers \cup {1}

InitJoin ==
  /\ InitLocals
  /\ InitBrowser
  /\ InitProcess
  /\ squadMembers = SetToBag({<<1, u>> : u \in Founders})
  /\ squads = ExistingSquads(squadMembers)
  /\ usersTable = [i \in 1..(MaxMembers + 1) |-> UserRow(i, NoAddr)]
  /\ upstream = [a \in Addrs |-> Throws]

NextJoin ==
  \/ \E p \in Procs, u \in JoinCallers, c \in JoinCodes : JoinSquad(p, u, c)
  \/ \E p \in Procs : JnBody(p)
  \/ \E p \in Procs : JnSquad(p)
  \/ \E p \in Procs : JnExisting(p)
  \/ \E p \in Procs : JnCount(p)
  \/ \E p \in Procs : JnInsert(p)
  \/ \E p \in Procs : JnReturn(p)
  \/ \E n \in SquadNames : CreateSquad(1, MaxMembers, n)
  \/ \E p \in Procs : CrBody(p)
  \/ \E p \in Procs : CrSquad(p)
  \/ \E p \in Procs : CrMember(p)
  \/ \E p \in Procs : CrReturn(p)

SpecJoin == InitJoin /\ [][NextJoin]_vars

\* C24: in every reachable state every squad has at most 10 members,
\* whatever create and join requests ran and however they interleaved.
C24_AtMostTen ==
  \A s \in {r.id : r \in squads} : Cardinality(MemberIds(s)) <= MaxMembers

\* ---------------------------------------------------- the overlap suite
\* Winner requests that overlap freely, each slot serving one request, so
\* that every request's outcome stays visible once all have completed.
NextOverlap ==
  \/ \E p \in Procs, c \in WinnerCallers :
       pc[p] = "idle" /\ CalculateWinner(p, c[1], c[2])
  \/ WinnerSteps

SpecOverlap == InitWinner /\ [][NextOverlap]_vars

SaveFailed == JsonError(500, "Failed to save winner")
AllCompleted == \A q \in Procs : pc[q] \in {"idle", "done"}

\* C25: once all overlapping winner requests have completed, if none of the
\* requests for a (squad, week) failed to insert and one of them succeeded,
\* the winner store holds at least one row for that (squad, week).
C25_WeekKeepsWinner ==
  \A p \in Procs :
    ( /\ AllCompleted
      /\ Won(p)
      /\ \A q \in Procs :
           (req[q].kind = "winner" /\ req[q].squadId = req[p].squadId
              /\ pc[q] = "done") => res[q][1] # SaveFailed ) =>
      WinnerCount(req[p].squadId, week[p]) >= 1

\* Two requests for the same week have both succeeded, the second having
\* deleted the row of the first before its own insert: one row is left.
C25_Witness ==
  \E p, q \in Procs :
    /\ p # q
    /\ Won(p) /\ Won(q)
    /\ req[p].squadId = req[q].squadId /\ week[p] = week[q]
    /\ existingWinner[p] = <<>> /\ existingWinner[q] # <<>>
    /\ WinnerCount(req[p].squadId, week[p]) = 1

\* C26: a winner request that fails on its insert leaves the winner store
\* as it was before the request; in particular the winner it found stored
\* for its (squad, week) is still stored after the failed replacement.
\* (Requests do not overlap here, so the rows of the week before the
\* request are the row its lookup found, or what the store holds if none.)
C26_FailureKeepsStore ==
  [][\A p \in Procs :
       (pc[p] = "cw_insert" /\ pc'[p] = "done" /\ res'[p][1] = SaveFailed) =>
         /\ existingWinner[p] # <<>> =>
              WinnersOf(req[p].squadId, week[p])' =
                SetToBag({existingWinner[p][1]})
         /\ existingWinner[p] = <<>> => squadWinners' = squadWinners]_vars

\* --------------------------------------------------- the duplicate suite
\* Winner requests for squad 1 that overlap freely, one more of them than
\* elsewhere: two that insert side by side and a third between them.
NextRepair ==
  \/ \E p \in Procs : CalculateWinnerUpTo(p, 1, 1, MaxCalls + 1)
  \/ WinnerSteps

SpecRepair == InitWinner /\ [][NextRepair]_vars

\* C27 as stated: once a (squad, week) holds two or more records its
\* record count never decreases.
C27_NeverDecreases ==
  [][\A s \in SquadIds, w \in 1..53 :
       WinnerCount(s, w) >= 2 => WinnerCount(s, w)' >= WinnerCount(s, w)]_vars

\* C27, amended: a winner lookup that runs while its (squad, week) holds
\* two or more records returns none, so that request deletes nothing and its
\* successful insert adds one record; the record count of a (squad, week)
\* decreases only by the delete of a request whose lookup had found exactly
\* one record, and that delete removes every record of the (squad, week).
C27_DuplicatesStay ==
  [][/\ \A p \in Procs :
          (pc[p] = "cw_find" /\ pc'[p] # "cw_find"
             /\ WinnerCount(req[p].squadId, week[p]) >= 2) =>
            /\ existingWinner'[p] = <<>>
            /\ pc'[p] = "cw_insert"
            /\ squadWinners' = squadWinners
     /\ \A p \in Procs :
          (Inserts(p) /\ existingWinner[p] = <<>>) =>
            WinnerCount(req[p].squadId, week[p])' =
              WinnerCount(req[p].squadId, week[p]) + 1
     /\ \A s \in SquadIds, w \in 1..53 :
          WinnerCount(s, w)' < WinnerCount(s, w) =>
            /\ WinnerCount(s, w)' = 0
            /\ \E p \in Procs :
                 /\ pc[p] = "cw_delete" /\ pc'[p] = "cw_insert"
                 /\ req[p].squadId = s /\ week[p] = w
                 /\ existingWinner[p] # <<>>]_vars

\* Three requests have inserted for squad 1, week 1, the last of them after
\* a lookup that ran with two records stored and returned none.
C27_Witness ==
  /\ WinnerCount(1, 1) = 3
  /\ \E p \in Procs : Won(p) /\ existingWinner[p] = <<>> /\ week[p] = 1
  /\ Len(broadcasts) = 3

\* ------------------------------------------------------ the stale suite
\* Leaderboard requests on slot 1 and winner requests on the other slots,
\* for squad 2, with a clock: cached leaderboards outlive their time to live
\* while winner requests run.
InitStale ==
  /\ InitLocals
  /\ InitBrowser
  /\ InitProcess
  /\ squadMembers = SetToBag(WinnerMembers)
  /\ squads = ExistingSquads(squadMembers)
  /\ usersTable = EdgeRows
  /\ upstream = [a \in Addrs |-> Gain]

NextStale ==
  \/ \E u \in {1, 3} : GetLeaderboard(1, 2, u, "all")
  \/ \E p \in Procs \ {1}, u \in {1, 3} : CalculateWinner(p, 2, u)
  \/ \E p \in Procs : LbAuth(p)
  \/ \E p \in Procs : LbMembers(p)
  \/ \E p \in Procs : LbUsers(p)
  \/ \E p \in Procs, i \in Users : LbSettle(p, i)
  \/ WinnerSteps
  \/ Tick(stdTTL + 1)

SpecStale == InitStale /\ [][NextStale]_vars

\* C28: no step of a winner request, from its arrival to its response and
\* whatever its outcome, changes the cache: every entry, live or expired, is
\* the same after the step as before it.
C28_WinnerLeavesCache ==
  [][\A p \in Procs :
       (req'[p].kind = "winner" /\ (pc'[p] # pc[p] \/ req'[p] # req[p])) =>
         pnlCache' = pnlCache]_vars

\* A winner request for squad 2 has gone past its cache read and completed
\* while the squad's all-time leaderboard sits in the cache, expired.
C28_Witness ==
  \E p \in Procs :
    /\ Won(p) /\ req[p].squadId = 2
    /\ "leaderboard:2:all" \in DOMAIN pnlCache
    /\ pnlCache["leaderboard:2:all"].t + stdTTL < now

\* C29: the build that ends writes its own result under its key with the
\* time of the write, whatever the key held before (nothing, an expired or a
\* live entry, of any age and value) and whatever the market shows by then;
\* the entry is live for the next 30 seconds and every other key is left as
\* it was.  The last of two overlapping builds to write is what the cache
\* holds, also when its market data is the older.
C29_LastWriterWins ==
  [][\A p \in Procs :
       BuildEnds(p) =>
         /\ DOMAIN pnlCache' = DOMAIN pnlCache \cup {KeyOf(p)}
         /\ \A k \in DOMAIN pnlCache' :
              pnlCache'[k] =
                IF k = KeyOf(p)
                THEN [v |-> SortDesc(Entries(results'[p])), t |-> now]
                ELSE pnlCache[k]
         /\ CacheGet(pnlCache', KeyOf(p), now + stdTTL) =
              <<res'[p][1].leaderboard>>
         /\ CacheGet(pnlCache', KeyOf(p), now + stdTTL + 1) = <<>>]_vars

\* Two builds of one key have ended.  The cache holds the leaderboard of the
\* one that received the market data of before the move, written a second
\* ago; the other received the data the market shows now and returned a
\* different leaderboard, which the cache no longer holds.
C29_Witness ==
  \E p, q \in Procs :
    /\ p # q
    /\ Built(p) /\ Built(q) /\ KeyOf(p) = KeyOf(q)
    /\ upstream["pA"] = Loss
    /\ fetched[p][1] = <<Gain>> /\ fetched[q][1] = <<Loss>>
    /\ BoardOf(p) # BoardOf(q)
    /\ pnlCache[KeyOf(p)] = [v |-> BoardOf(p), t |-> now - 1]

\* C30: a leaderboard request changes the cache only when its build ends:
\* the member list was not empty, the profiles were returned and every
\* profile's task has settled; the entry written is the leaderboard it
\* answers with.  The empty-leaderboard answer (no members, or the member
\* lookup failed), the 403 and the 500 leave every cache entry as it was.
C30_WritesOnlyAtEnd ==
  [][/\ \A p \in Procs :
          ( /\ req[p].kind = "leaderboard"
            /\ pc[p] # "done" /\ pc'[p] = "done"
            /\ \/ res'[p][1].status \in {403, 500}
               \/ pc[p] = "gl_members" ) =>
            pnlCache' = pnlCache
     /\ \A k \in DOMAIN pnlCache' :
          (k \notin DOMAIN pnlCache \/ pnlCache'[k] # pnlCache[k]) =>
            \E p \in Procs :
              /\ req[p].kind = "leaderboard"
              /\ pc[p] \in {"gl_users", "gl_fetch"} /\ pc'[p] = "done"
              /\ res'[p][1].status = 200
              /\ k = "leaderboard:" \o ToString(req[p].squadId) \o ":"
                       \o req[p].timeframe
              /\ userIds[p] # {}
              /\ Len(results'[p]) = Len(users'[p])
              /\ \A i \in 1..Len(results'[p]) : results'[p][i] # <<>>
              /\ pnlCache'[k].v = res'[p][1].leaderboard]_vars

\* After a weekly build was cached, an all-time request of the same squad
\* whose member lookup failed was answered with an empty leaderboard: the
\* cache holds the weekly entry and nothing else.
C30_Witness ==
  /\ req[1].kind = "leaderboard" /\ req[1].timeframe = "all"
  /\ pc[1] = "done" /\ res[1] = <<JsonLeaderboard(<<>>)>>
  /\ userIds[1] = {} /\ users[1] = <<>>
  /\ BagIn(<<2, 3>>, squadMembers)
  /\ DOMAIN pnlCache = {"leaderboard:2:weekly"}
  /\ Len(pnlCache["leaderboard:2:weekly"].v) = 1

\* ------------------------------------------------------ the query suite
\* Overlapping leaderboard requests of member 1 for squad 1 whose timeframe
\* query is absent, a string or a one-element array.
QueryValues == {"", "weekly", "[all]", "[weekly]"}
QueryPairs == {<<s, TimeframeOf(q)>> : s \in {1}, q \in QueryValues}

NextQuery ==
  \/ \E p \in Procs, q \in QueryValues : GetLeaderboard(p, 1, 1, q)
  \/ \E p \in Procs : LbAuth(p)
  \/ \E p \in Procs : LbMembers(p)
  \/ \E p \in Procs : LbUsers(p)
  \/ \E p \in Procs, i \in Users : LbSettle(p, i)

SpecQuery == InitCache /\ [][NextQuery]_vars

\* C31: the cache write that ends a build for (squad, timeframe) leaves the
\* entry of every other (squad, timeframe) as it was, and a request served
\* from the cache gets the entry of its own (squad, timeframe).
C31_KeysIsolate ==
  [][\A p \in Procs :
       BuildEnds(p) =>
         \A other \in QueryPairs \ {<<req[p].squadId, req[p].timeframe>>} :
           EntryAt(pnlCache', LeaderboardKey(other[1], other[2])) =
             EntryAt(pnlCache, LeaderboardKey(other[1], other[2]))]_vars

\* C32: a leaderboard request whose timeframe is none of `all`, `weekly`
\* and `daily` computes no cutoff; the total of a member whose fetches
\* succeeded is the sum of the realized PnL of all returned closed
\* positions, rounded to two decimals, without the open-position value; and
\* the finished build is cached under the key made of that timeframe.
C32_OtherTimeframe ==
  \A p \in Procs :
    (req[p].kind = "leaderboard"
       /\ req[p].timeframe \notin {"all", "weekly", "daily"}) =>
      /\ startTimestamp[p] = <<>>
      /\ \A i \in Fetched(p) :
           LET r == fetched[p][i][1]
           IN IsRound2(TotalOf(p, i),
                       IF r.isArray THEN SumOver(DOMAIN r.closed, r.closed)
                       ELSE 0)
      /\ Built(p) =>
           LET key == "leaderboard:" \o ToString(req[p].squadId) \o ":"
                        \o req[p].timeframe
           IN /\ DOMAIN pnlCache = {key}
              /\ pnlCache[key].v = BoardOf(p)

\* A `monthly` leaderboard was built and cached for a member with an open
\* value and a closed position older than a week: its total counts that
\* position and leaves the open value out.
C32_Witness ==
  \E p \in Procs : \E i \in Fetched(p) :
    LET r == fetched[p][i][1]
    IN /\ req[p].timeframe = "monthly" /\ Built(p)
       /\ "leaderboard:1:monthly" \in DOMAIN pnlCache
       /\ OrZero(r.value) # 0
       /\ Len(r.closed) = 2
       /\ r.closed[1] = Position(<<1234>>, <<Epoch0 - WeekSeconds - 1>>)
       /\ r.closed[2] = Position(<<0 - 335>>, <<>>)
       /\ TotalOf(p, i) = 900

\* C33: the profile lookup of a build either fails, and the request is
\* answered 500 with no leaderboard and no cache write, or returns the
\* profile rows of the members it read, and one task per row starts; the
\* build that ends answers with exactly one entry per returned profile, each
\* identity once, whether its fetches succeeded, failed or were not needed.
C33_OneEntryPerProfile ==
  [][\A p \in Procs :
       /\ (pc[p] = "gl_users" /\ pc'[p] # "gl_users") =>
            \/ /\ res'[p] = <<JsonError(500, "Failed to fetch users")>>
               /\ results'[p] = <<>>
               /\ pnlCache' = pnlCache
            \/ /\ users'[p] =
                    SelectSeq(usersTable,
                              LAMBDA u : u.evmAddress \in userIds[p])
               /\ Len(results'[p]) = Len(users'[p])
       /\ BuildEnds(p) =>
            LET b == res'[p][1].leaderboard
            IN /\ Len(b) = Len(users'[p])
               /\ \A i \in 1..Len(users'[p]) :
                    Cardinality({k \in 1..Len(b) :
                                   b[k].evmAddress = users'[p][i].evmAddress}) = 1
               /\ \A k \in 1..Len(b) :
                    \E i \in 1..Len(users'[p]) :
                      b[k].evmAddress = users'[p][i].evmAddress]_vars

\* A build over three profiles has ended: one has no trading identity, the
\* fetch of one threw and one succeeded; the leaderboard has the three.
C33_Witness ==
  \E p \in Procs :
    /\ Built(p) /\ Len(users[p]) = 3 /\ Len(BoardOf(p)) = 3
    /\ {BoardOf(p)[k].evmAddress : k \in 1..3} = {1, 2, 3}
    /\ \E i, j, k \in 1..3 :
         /\ users[p][i].polymarketUserAddress = NoAddr
         /\ fetched[p][j] = <<Throws>>
         /\ fetched[p][k] # <<>> /\ ~Failed(fetched[p][k][1])
         /\ TotalOf(p, k) # 0

\* C34: whatever join requests ran and however they interleaved, the store
\* holds at most one membership row per (squad, user).
C34_OneRowPerMember ==
  \A m \in BagToSet(squadMembers) : CopiesIn(m, squadMembers) <= 1

\* ------------------------------------------------------------ the browser
\* Addresses are the sequences of their characters.
AddressLength == 42
Hex(c, d) ==
  <<"0", "x">> \o [i \in 1..(AddressLength - 2) |-> IF i % 2 = 1 THEN c ELSE d]

\* String.prototype.toLowerCase, character by character.
LowerChar(c) ==
  CASE c = "A" -> "a" [] c = "B" -> "b" [] c = "C" -> "c" [] c = "D" -> "d"
    [] c = "E" -> "e" [] c = "F" -> "f" [] c = "X" -> "x" [] OTHER -> c
toLowerCase(s) == [i \in 1..Len(s) |-> LowerChar(s[i])]

\* What the wallet reports (mixed case) and what is typed into the login form.
WalletAddresses == {Hex("A", "b"), Hex("1", "C")}
LoginInputs ==
  {<<>>, <<" ">>, <<"0", "x", "a">>, [i \in 1..AddressLength |-> "a"],
   Hex("a", "b"), Hex("A", "b"), Hex("1", "c")}
Tokens == {"jwt1", "jwt2"}
\* What is typed into the profile form, and what trim() makes of it.
FormNames == {"  ", " Degens "}
FormAddresses == {"", " 0xpm "}
trim(s) ==
  CASE s = "  " -> "" [] s = " Degens " -> "Degens" [] s = " 0xpm " -> "0xpm"
    [] OTHER -> s
\* The profiles the server may hold for an address.
Profiles(a) ==
  {[evmAddress |-> a, username |-> n, polymarketUserAddress |-> pm] :
     n \in {"", "Degens"}, pm \in {"", "0xpm"}}
Routes == {"/", "/squads", "/profile"}

\* The store's functions; set() merges the fields given into the state.
setAuth(t, u) ==
  /\ token' = <<t>>
  /\ user' = <<u>>
  /\ UNCHANGED walletVerified
updateUser(u) ==
  /\ user' = <<u>>
  /\ UNCHANGED <<token, walletVerified>>
setWalletVerified(verified) ==
  /\ walletVerified' = verified
  /\ UNCHANGED <<token, user>>
\* A logout that clears the session and keeps the flag.
logoutKeepsVerified ==
  /\ token' = Null
  /\ user' = Null
  /\ UNCHANGED walletVerified
logout ==
  /\ token' = Null
  /\ user' = Null
  /\ walletVerified' = FALSE

\* [isConnected, address, user?.evmAddress]: the wallet effect's dependencies.
CurrentDeps ==
  <<isConnected, address, IF user = Null THEN Null ELSE <<user[1].evmAddress>> >>
\* An effect of the mounted page has yet to run; React runs it before the next
\* event is handled.
VerifyPending == page = "/profile" /\ deps # <<CurrentDeps>>
RedirectPending == page \in {"/profile", "/squads"} /\ token = Null
Quiet == ~VerifyPending /\ ~RedirectPending

\* ProfilePage's wallet effect.
VerifyEffect ==
  /\ VerifyPending
  /\ IF /\ isConnected
        /\ address # Null /\ address[1] # <<>>
        /\ user # Null /\ user[1].evmAddress # <<>>
       THEN LET matches == toLowerCase(address[1])
                             = toLowerCase(user[1].evmAddress)
            IN  setWalletVerified(matches)
       ELSE setWalletVerified(FALSE)
  /\ deps' = <<CurrentDeps>>
  /\ UNCHANGED <<isConnected, address, page, api>>
  /\ UNCHANGED <<globals, locals>>

\* if (!token) router.push('/'), of ProfilePage and SquadsPage.
RedirectEffect ==
  /\ RedirectPending
  /\ ~VerifyPending
  /\ page' = "/"
  /\ deps' = Null
  /\ UNCHANGED <<token, user, walletVerified, isConnected, address, api>>
  /\ UNCHANGED <<globals, locals>>

\* Home's login form, shown while no user is stored.
Blank(s) == \A i \in 1..Len(s) : s[i] = " "
StartsWith0x(s) == Len(s) >= 2 /\ s[1] = "0" /\ s[2] = "x"
handleLogin(evmAddress) ==
  /\ Quiet
  /\ page = "/"
  /\ user = Null
  /\ ~\E r \in api : r.call = "login"
  /\ IF Blank(evmAddress) \/ ~StartsWith0x(evmAddress)
        \/ Len(evmAddress) # AddressLength
       THEN UNCHANGED api
       ELSE api' = api \cup {[call |-> "login", evmAddress |-> evmAddress]}
  /\ UNCHANGED <<token, user, walletVerified, isConnected, address, page, deps>>
  /\ UNCHANGED <<globals, locals>>

\* api.login settles: the session and the profile of that address, or an error.
LoginSettles(r, ok, t, lower) ==
  /\ Quiet
  /\ r \in api /\ r.call = "login"
  /\ api' = api \ {r}
  /\ IF ok
       THEN /\ \E u \in Profiles(IF lower THEN toLowerCase(r.evmAddress)
                                            ELSE r.evmAddress) : setAuth(t, u)
            /\ page' = "/squads"
            /\ deps' = Null
       ELSE UNCHANGED <<token, user, walletVerified, page, deps>>
  /\ UNCHANGED <<isConnected, address>>
  /\ UNCHANGED <<globals, locals>>

\* ProfilePage's form, rendered while a user is stored.
handleSubmit(n, pm) ==
  /\ Quiet
  /\ page = "/profile"
  /\ user # Null
  /\ ~\E r \in api : r.call = "updateProfile"
  /\ IF token = Null
       THEN UNCHANGED api
       ELSE api' = api \cup {[call |-> "updateProfile", token |-> token[1],
                              evmAddress |-> user[1].evmAddress,
                              username |->
                                IF trim(n) = "" THEN user[1].username
                                                ELSE trim(n),
                              polymarketUserAddress |->
                                IF trim(pm) = ""
                                  THEN user[1].polymarketUserAddress
                                  ELSE trim(pm)]}
  /\ UNCHANGED <<token, user, walletVerified, isConnected, address, page, deps>>
  /\ UNCHANGED <<globals, locals>>

\* api.updateProfile settles: the profile of the token's account, or an error.
SubmitSettles(r, ok) ==
  /\ Quiet
  /\ r \in api /\ r.call = "updateProfile"
  /\ api' = api \ {r}
  /\ IF ok
       THEN updateUser([evmAddress |-> r.evmAddress, username |-> r.username,
                        polymarketUserAddress |-> r.polymarketUserAddress])
       ELSE UNCHANGED <<token, user, walletVerified>>
  /\ UNCHANGED <<isConnected, address, page, deps>>
  /\ UNCHANGED <<globals, locals>>

handleLogout ==
  /\ Quiet
  /\ page = "/profile"
  /\ user # Null
  /\ logout
  /\ page' = "/"
  /\ deps' = Null
  /\ UNCHANGED <<isConnected, address, api>>
  /\ UNCHANGED <<globals, locals>>

\* A link is followed: the page is unmounted and the target's mounted.
Navigate(to) ==
  /\ Quiet
  /\ to # page
  /\ page' = to
  /\ deps' = Null
  /\ UNCHANGED <<token, user, walletVerified, isConnected, address, api>>
  /\ UNCHANGED <<globals, locals>>

\* The wallet: useAccount() reports a connection, another account, none.
Connect(a) ==
  /\ Quiet
  /\ ~isConnected
  /\ isConnected' = TRUE
  /\ address' = <<a>>
  /\ UNCHANGED <<token, user, walletVerified, page, deps, api>>
  /\ UNCHANGED <<globals, locals>>
SwitchAccount(a) ==
  /\ Quiet
  /\ isConnected
  /\ address # <<a>>
  /\ address' = <<a>>
  /\ UNCHANGED <<token, user, walletVerified, isConnected, page, deps, api>>
  /\ UNCHANGED <<globals, locals>>
Disconnect ==
  /\ Quiet
  /\ isConnected
  /\ isConnected' = FALSE
  /\ address' = Null
  /\ UNCHANGED <<token, user, walletVerified, page, deps, api>>
  /\ UNCHANGED <<globals, locals>>

InitAuth ==
  /\ InitLocals
  /\ InitBrowser
  /\ InitProcess
  /\ squadMembers = EmptyBag
  /\ squads = ExistingSquads(squadMembers)
  /\ usersTable = <<>>
  /\ upstream = [a \in Addrs |-> Throws]

NextAuth ==
  \/ \E a \in LoginInputs : handleLogin(a)
  \/ \E r \in api, ok \in BOOLEAN, t \in Tokens, lower \in BOOLEAN :
        LoginSettles(r, ok, t, lower)
  \/ \E n \in FormNames, pm \in FormAddresses : handleSubmit(n, pm)
  \/ \E r \in api, ok \in BOOLEAN : SubmitSettles(r, ok)
  \/ handleLogout
  \/ \E to \in Routes : Navigate(to)
  \/ \E a \in WalletAddresses : Connect(a)
  \/ \E a \in WalletAddresses : SwitchAccount(a)
  \/ Disconnect
  \/ VerifyEffect
  \/ RedirectEffect

SpecAuth == InitAuth /\ [][NextAuth]_vars

\* C35: logout sets token, user and walletVerified to null, null and false
\* whatever they were; the steps that call setAuth or updateUser leave
\* walletVerified as it was, and the step that calls setWalletVerified leaves
\* token and user as they were.
C35_StoreFrames ==
  [][/\ handleLogout =>
          token' = Null /\ user' = Null /\ walletVerified' = FALSE
     /\ (\E r \in api, ok \in BOOLEAN, t \in Tokens, lower \in BOOLEAN :
           LoginSettles(r, ok, t, lower)) => walletVerified' = walletVerified
     /\ (\E r \in api, ok \in BOOLEAN : SubmitSettles(r, ok)) =>
          walletVerified' = walletVerified
     /\ VerifyEffect => token' = token /\ user' = user]_vars

\* A logout taken while a profile update of a connected, matching wallet's
\* account was awaiting its response.
C35_Witness ==
  /\ token = Null /\ user = Null /\ ~walletVerified
  /\ isConnected
  /\ \E r \in api : /\ r.call = "updateProfile"
                    /\ toLowerCase(r.evmAddress) = toLowerCase(address[1])

\* The connected wallet is the logged-in user's, ignoring case.
WalletMatches ==
  /\ isConnected /\ address # Null
  /\ user # Null
  /\ toLowerCase(address[1]) = toLowerCase(user[1].evmAddress)

\* C36: once the mounted page's effects have run, walletVerified is true only
\* if a wallet is connected and its address is the logged-in user's ignoring
\* case.
C36_VerifiedMeansMatch == Quiet => (walletVerified => WalletMatches)

====
